---------------------------- MODULE Spec2Model ----------------------------
(***************************************************************************)
(* Playlist synchronisation and conflict resolution of PlaylistConverter.  *)
(*                                                                         *)
(* Text is modelled as sequences of tokens.  A token is one character      *)
(* (" ", "#", "/", "\\"), a path component ("a", "A", "S", "..") or one of *)
(* the fixed header prefixes the engine writes ("# Generated on", ...),    *)
(* which the code only ever tests with startswith.  A playlist file is a   *)
(* sequence of lines, a line a sequence of tokens without its newline.     *)
(* Paths follow posixpath (os.path on Linux).                              *)
(***************************************************************************)
EXTENDS Integers, Sequences, FiniteSets, TLC

VARIABLES
    fileA,      \* resolver harness: lines of the PC-side playlist file
    fileB,      \* resolver harness: lines of the smartphone-side playlist file
    op,         \* resolver harness: the ConflictResolver operation last applied
    arg,        \* resolver harness: the arguments drawn for that operation
    res,        \* resolver harness: what that operation returned
    conflict_rules, \* ConflictResolver.conflict_rules: playlist name -> strategy
    hist        \* harness: the calls made so far, in order

rvars == <<fileA, fileB, op, arg, res, conflict_rules, hist>>

VARIABLES
    dev,                 \* device folders: dev[d][name] is the file of that name
    conv,                \* the staging folder "Conversion": conv[name]
    backups,             \* the folder "Backups": the set of backup files
    conflicts_dir,       \* the folder "Conflicts": the set of snapshot files
    recently_processed,  \* module global: file name -> time of last processing
    now,                 \* the clock read by time.time() and datetime.now()
    phase,               \* where initial_sync_with_comparison stands
    cfg,                 \* the SyncConfig of the running pass
    dry_run,             \* the dry_run argument of the running pass
    conflict_files,      \* playlist names of the conflicts found by the running pass
    folder_idx,          \* index into the folder loop of line 312
    remaining,           \* files of the current folder listing not yet visited
    wlog,                \* the file writes of the running (or last) pass, in order
    passes,              \* full passes completed
    edits,               \* edits made to the device folders from outside
    changed,             \* a file changed from outside since the last pass began
    pre_dev              \* the device folders as the running (or last) pass found them

svars == <<dev, conv, backups, conflicts_dir, recently_processed, now, phase, cfg,
           dry_run, conflict_files, folder_idx, remaining, wlog, passes, edits,
           changed, pre_dev>>

\* Python's None, where a function returns Optional[...]
VARIABLES
    recently_pushed_files, \* module global: device -> file name -> end of the block
    threads                \* each thread inside should_process: its position and locals

wvars == <<recently_pushed_files, threads>>

None == [is_none |-> TRUE]

----------------------------------------------------------------------------
(* Bounds of the resolver harness *)

MaxLen == 4
MaxPairLen == 2
MaxRuleLen == 1
MaxCalls == 4
MaxEvents == 3
MaxNameLen == 6

(* Bounds of the sync engine model *)

MaxFiles == 2       \* playlist files present in the device folders at start
MaxTime == 2        \* seconds the clock runs
MaxPasses == 2      \* full passes run
MaxEdits == 1       \* edits from outside

----------------------------------------------------------------------------
(* str primitives on token sequences *)

TAG_GENERATED == "# Generated on"
TAG_SOURCE == "# Source Folder"
TAG_TARGET == "# Target Folder"
TAG_RESOLVED == "# Resolved on"
TAG_MERGED == "# Merged playlist"
TAG_TOTAL == "# Total entries"

\* every token whose text begins with the character '#'
HashTokens ==
    {"#", TAG_GENERATED, TAG_SOURCE, TAG_TARGET, TAG_RESOLVED, TAG_MERGED, TAG_TOTAL}

\* str.startswith('#')
StartsWithHash(s) == s # <<>> /\ Head(s) \in HashTokens

\* str.startswith(tag) for one of the header prefixes
StartsWithTag(s, tag) == s # <<>> /\ Head(s) = tag

RECURSIVE lstrip(_)
lstrip(s) == IF s # <<>> /\ Head(s) = " " THEN lstrip(Tail(s)) ELSE s

RECURSIVE rstrip(_)
rstrip(s) ==
    IF s # <<>> /\ s[Len(s)] = " " THEN rstrip(SubSeq(s, 1, Len(s) - 1)) ELSE s

strip(s) == rstrip(lstrip(s))

LowerTok(c) ==
    CASE c = "A" -> "a"
      [] c = "B" -> "b"
      [] c = "S" -> "s"
      [] c = "PC" -> "pc"
      [] OTHER -> c

lower(s) == [i \in 1..Len(s) |-> LowerTok(s[i])]

\* str.replace('\\', '/')
ReplaceBackslash(s) == [i \in 1..Len(s) |-> IF s[i] = "\\" THEN "/" ELSE s[i]]

\* str.split('/')
RECURSIVE SplitSlash(_, _)
SplitSlash(s, cur) ==
    IF s = <<>> THEN <<cur>>
    ELSE IF Head(s) = "/" THEN <<cur>> \o SplitSlash(Tail(s), <<>>)
    ELSE SplitSlash(Tail(s), Append(cur, Head(s)))

\* '/'.join(comps)
RECURSIVE JoinSlash(_)
JoinSlash(comps) ==
    IF comps = <<>> THEN <<>>
    ELSE IF Len(comps) = 1 THEN comps[1]
    ELSE comps[1] \o <<"/">> \o JoinSlash(Tail(comps))

\* the component loop of posixpath.normpath
RECURSIVE NormComps(_, _, _)
NormComps(comps, acc, isabs) ==
    IF comps = <<>> THEN acc
    ELSE LET c == Head(comps) IN
         IF c = <<>> \/ c = <<".">> THEN NormComps(Tail(comps), acc, isabs)
         ELSE IF c # <<"..">>
                 \/ (~isabs /\ acc = <<>>)
                 \/ (acc # <<>> /\ acc[Len(acc)] = <<"..">>)
              THEN NormComps(Tail(comps), Append(acc, c), isabs)
         ELSE IF acc # <<>>
              THEN NormComps(Tail(comps), SubSeq(acc, 1, Len(acc) - 1), isabs)
         ELSE NormComps(Tail(comps), acc, isabs)

\* posixpath.normpath
normpath(s) ==
    IF s = <<>> THEN <<".">>
    ELSE LET isabs == Head(s) = "/"
             comps == NormComps(SplitSlash(s, <<>>), <<>>, isabs)
             body  == JoinSlash(comps)
             path  == IF isabs THEN <<"/">> \o body ELSE body
         IN IF path = <<>> THEN <<".">> ELSE path

\* posixpath.basename: what follows the last '/'
basename(s) == LET comps == SplitSlash(s, <<>>) IN comps[Len(comps)]

----------------------------------------------------------------------------
(* conflict_resolution_system.py: PlaylistEntry *)

normalize_path(path) ==
    LET clean_path == strip(path) IN
    IF StartsWithHash(clean_path) THEN clean_path
    ELSE LET normalized == ReplaceBackslash(normpath(lower(clean_path)))
             filename   == basename(normalized)
         IN IF filename # <<>> THEN filename ELSE normalized

PlaylistEntry(line) == [path |-> line, normalized_path |-> normalize_path(line)]

is_duplicate_of(e, other) ==
    IF StartsWithHash(e.normalized_path) \/ StartsWithHash(other.normalized_path)
    THEN FALSE
    ELSE e.normalized_path = other.normalized_path

\* the paths of a version that has_meaningful_changes compares
ContentPaths(version) ==
    {version[i].normalized_path : i \in {j \in 1..Len(version) : ~StartsWithHash(version[j].path)}}

\* the versions' path lists as they stand, order and repeats included
ContentPathList(version) ==
    LET tracks == SelectSeq(version, LAMBDA e : ~StartsWithHash(e.path))
    IN [i \in 1..Len(tracks) |-> tracks[i].normalized_path]

\* faulty variant: the two path lists are compared as lists, not as sets
has_meaningful_changes_ordered(conflict) ==
    ContentPathList(conflict.pc_version) # ContentPathList(conflict.smartphone_version)

has_meaningful_changes(conflict) ==
    ContentPaths(conflict.pc_version) # ContentPaths(conflict.smartphone_version)

----------------------------------------------------------------------------
(* conflict_resolution_system.py: ConflictResolver *)

\* a file as the resolver meets it: its lines, and whether stat and open succeed
FileStatus == {"ok", "unreadable", "missing"}

NonEmptyLine(l) == l # <<>>

parse_playlist_file(f) ==
    IF f.status # "ok" THEN <<>>
    ELSE LET kept == SelectSeq(f.lines, NonEmptyLine)
         IN [i \in 1..Len(kept) |-> PlaylistEntry(kept[i])]

detect_conflict(pc, smartphone) ==
    IF pc.status = "missing" \/ smartphone.status = "missing" THEN None
    ELSE LET conflict == [playlist_name      |-> pc.name,
                          pc_version         |-> parse_playlist_file(pc),
                          smartphone_version |-> parse_playlist_file(smartphone),
                          conflict_type      |-> "content_change"]
         IN IF has_meaningful_changes(conflict) THEN conflict ELSE None

\* the loop of find_duplicates: the dict under construction, indices from 0
RECURSIVE FindDupLoop(_, _, _)
FindDupLoop(entries, i, duplicates) ==
    IF i > Len(entries) THEN duplicates
    ELSE LET normalized == entries[i].normalized_path IN
         IF StartsWithHash(normalized) THEN FindDupLoop(entries, i + 1, duplicates)
         ELSE LET old == IF normalized \in DOMAIN duplicates
                         THEN duplicates[normalized] ELSE <<>>
              IN FindDupLoop(entries, i + 1,
                     [k \in DOMAIN duplicates \cup {normalized} |->
                         IF k = normalized THEN Append(old, i - 1) ELSE duplicates[k]])

find_duplicates(entries) ==
    LET duplicates == FindDupLoop(entries, 1, [k \in {} |-> <<>>])
    IN [k \in {n \in DOMAIN duplicates : Len(duplicates[n]) > 1} |-> duplicates[k]]

\* faulty variant: skipping a duplicate also forgets that its path was seen
RECURSIVE RemoveDupLoopForgetful(_, _, _)
RemoveDupLoopForgetful(entries, seen, result) ==
    IF entries = <<>> THEN result
    ELSE LET entry == Head(entries) IN
         IF StartsWithHash(entry.normalized_path)
         THEN RemoveDupLoopForgetful(Tail(entries), seen, Append(result, entry))
         ELSE IF entry.normalized_path \notin seen
         THEN RemoveDupLoopForgetful(Tail(entries), seen \cup {entry.normalized_path},
                                     Append(result, entry))
         ELSE RemoveDupLoopForgetful(Tail(entries), seen \ {entry.normalized_path}, result)

RECURSIVE RemoveDupLoop(_, _, _)
RemoveDupLoop(entries, seen, result) ==
    IF entries = <<>> THEN result
    ELSE LET entry == Head(entries) IN
         IF StartsWithHash(entry.normalized_path)
         THEN RemoveDupLoop(Tail(entries), seen, Append(result, entry))
         ELSE IF entry.normalized_path \notin seen
         THEN RemoveDupLoop(Tail(entries), seen \cup {entry.normalized_path},
                            Append(result, entry))
         ELSE RemoveDupLoop(Tail(entries), seen, result)

remove_duplicates(entries) == RemoveDupLoop(entries, {}, <<>>)

\* faulty variant: the membership test is inverted, so new tracks of the second list are dropped
RECURSIVE MergeLoopInverted(_, _, _, _)
MergeLoopInverted(entries2, existing_paths, merged, dedupe) ==
    IF entries2 = <<>> THEN merged
    ELSE LET entry == Head(entries2) IN
         IF StartsWithHash(entry.path)
         THEN MergeLoopInverted(Tail(entries2), existing_paths, Append(merged, entry), dedupe)
         ELSE IF ~dedupe \/ entry.normalized_path \in existing_paths
         THEN MergeLoopInverted(Tail(entries2), existing_paths, Append(merged, entry), dedupe)
         ELSE MergeLoopInverted(Tail(entries2), existing_paths, merged, dedupe)

RECURSIVE MergeLoop(_, _, _, _)
MergeLoop(entries2, existing_paths, merged, dedupe) ==
    IF entries2 = <<>> THEN merged
    ELSE LET entry == Head(entries2) IN
         IF StartsWithHash(entry.path)
         THEN MergeLoop(Tail(entries2), existing_paths, Append(merged, entry), dedupe)
         ELSE IF ~dedupe \/ entry.normalized_path \notin existing_paths
         THEN MergeLoop(Tail(entries2),
                        IF dedupe THEN existing_paths \cup {entry.normalized_path}
                                  ELSE existing_paths,
                        Append(merged, entry), dedupe)
         ELSE MergeLoop(Tail(entries2), existing_paths, merged, dedupe)

\* faulty variant: the second list is put in front of the first
merge_playlists_swapped(entries1, entries2, dedupe) ==
    LET merged == MergeLoop(entries1, ContentPaths(entries2), entries2, dedupe)
    IN IF dedupe THEN remove_duplicates(merged) ELSE merged

merge_playlists(entries1, entries2, dedupe) ==
    LET merged == MergeLoop(entries2, ContentPaths(entries1), entries1, dedupe)
    IN IF dedupe THEN remove_duplicates(merged) ELSE merged

PC_WINS == "pc_wins"
SMARTPHONE_WINS == "smartphone_wins"
MERGE_BOTH == "merge_both"
MERGE_NO_DUPLICATES == "merge_no_duplicates"
MANUAL == "manual"
SKIP == "skip"
ConflictResolution ==
    {PC_WINS, SMARTPHONE_WINS, MERGE_BOTH, MERGE_NO_DUPLICATES, MANUAL, SKIP}

\* a list returned where the function may also return None
Resolved(entries) == [entries |-> entries]

\* faulty variant: the two winner strategies return the other side
resolve_conflict_sides_swapped(conflict, resolution) ==
    CASE resolution = PC_WINS -> Resolved(conflict.smartphone_version)
      [] resolution = SMARTPHONE_WINS -> Resolved(conflict.pc_version)
      [] resolution = MERGE_BOTH ->
            Resolved(merge_playlists(conflict.pc_version,
                                     conflict.smartphone_version, FALSE))
      [] resolution = MERGE_NO_DUPLICATES ->
            Resolved(merge_playlists(conflict.pc_version,
                                     conflict.smartphone_version, TRUE))
      [] OTHER -> None

\* resolve_conflict with the strategy already chosen (lines 199-221)
resolve_conflict(conflict, resolution) ==
    CASE resolution = PC_WINS -> Resolved(conflict.pc_version)
      [] resolution = SMARTPHONE_WINS -> Resolved(conflict.smartphone_version)
      [] resolution = MERGE_BOTH ->
            Resolved(merge_playlists(conflict.pc_version,
                                     conflict.smartphone_version, FALSE))
      [] resolution = MERGE_NO_DUPLICATES ->
            Resolved(merge_playlists(conflict.pc_version,
                                     conflict.smartphone_version, TRUE))
      [] OTHER -> None

\* ConflictResolver.__init__ (lines 80-81)
default_resolution == MERGE_NO_DUPLICATES
NoRules == [n \in {} |-> default_resolution]

\* an explicit strategy argument; the argument left out is None
Explicit(resolution) == [strategy |-> resolution]

set_conflict_rule(rules, playlist_name, resolution) ==
    [n \in DOMAIN rules \cup {playlist_name} |->
        IF n = playlist_name THEN resolution ELSE rules[n]]

\* faulty variant: a rule registered for any playlist is used
ResolutionForAnyRule(rules, conflict, resolution) ==
    IF resolution = None
    THEN IF DOMAIN rules # {} THEN rules[CHOOSE n \in DOMAIN rules : TRUE]
         ELSE default_resolution
    ELSE resolution.strategy

\* lines 196-197: conflict_rules.get(conflict.playlist_name, default_resolution)
ResolutionFor(rules, conflict, resolution) ==
    IF resolution = None
    THEN IF conflict.playlist_name \in DOMAIN rules THEN rules[conflict.playlist_name]
         ELSE default_resolution
    ELSE resolution.strategy

\* resolve_conflict as called, with or without a strategy (lines 191-221)
resolve_conflict_call(rules, conflict, resolution) ==
    resolve_conflict(conflict, ResolutionFor(rules, conflict, resolution))

IsTrack(e) == ~StartsWithHash(e.path)

\* the lines write_resolved_playlist writes, stamped with the time ts
write_resolved_playlist(entries, ts) ==
    << <<TAG_RESOLVED, ToString(ts)>>,
       <<TAG_MERGED>>,
       <<TAG_TOTAL, ToString(Len(SelectSeq(entries, IsTrack)))>> >>
    \o [i \in 1..Len(entries) |-> entries[i].path]

----------------------------------------------------------------------------
(* conversion.py: content fingerprint *)

\* '\n'.join(lines)
RECURSIVE JoinNewline(_)
JoinNewline(lines) ==
    IF lines = <<>> THEN <<>>
    ELSE IF Len(lines) = 1 THEN lines[1]
    ELSE lines[1] \o <<"\n">> \o JoinNewline(Tail(lines))

\* the prefixes clean_for_hash drops (line 78)
HashTags == {TAG_GENERATED, TAG_SOURCE, TAG_TARGET, TAG_RESOLVED, TAG_MERGED}

KeptForHash(line) ==
    /\ strip(line) # <<>>
    /\ ~\E tag \in HashTags : StartsWithTag(lstrip(line), tag)

clean_for_hash(lines) ==
    LET kept == SelectSeq(lines, KeptForHash)
    IN JoinNewline([i \in 1..Len(kept) |-> strip(kept[i])])

\* SHA-256 taken as collision-free: the digest stands for the text it was made of
checksum(content) == <<"sha256:">> \o content

----------------------------------------------------------------------------
(* conversion.py: names and paths *)

Devices == {"pc", "smartphone"}

\* folders["pc"], folders["smartphone"] and the working directory of the process
PcFolder == <<"/", "m", "/", "PC">>
PhoneFolder == <<"/", "m", "/", "Phone">>
Cwd == <<"/", "app">>


\* the label the folder loop pairs with a folder key (line 312)
LabelOf(folder_key) == IF folder_key = "pc" THEN "PC" ELSE "Smartphone"

\* file names, as tokens: a base, version suffixes '_v<digits>', an extension
VersionTokens == {"_v2", "_v5"}
Rock == <<"Rock", ".m3u">>
RockV2 == <<"Rock", "_v2", ".m3u">>
Rock8 == <<"Rock", ".m3u8">>
FileNames == {Rock, RockV2, Rock8}

\* str.endswith(ext)
EndsWith(name, ext) == name # <<>> /\ name[Len(name)] = ext

\* re.sub(r"(_v\d+)+(?=\.m3u$)", "", name): the run of version suffixes that
\* stands right before a final '.m3u' is removed
RECURSIVE DropVersionRun(_)
DropVersionRun(stem) ==
    IF stem # <<>> /\ stem[Len(stem)] \in VersionTokens
    THEN DropVersionRun(SubSeq(stem, 1, Len(stem) - 1))
    ELSE stem

strip_version(name) ==
    IF EndsWith(name, ".m3u")
    THEN DropVersionRun(SubSeq(name, 1, Len(name) - 1)) \o <<".m3u">>
    ELSE name

\* The same substitution on names spelled out further: a name is a sequence of
\* the tokens "_v", a digit, the extension tokens and other text.
DigitTokens == {"2", "5"}

\* s is in the language of (_v\d+)+
RECURSIVE MatchesVersionRun(_)
MatchesVersionRun(s) ==
    /\ Len(s) >= 2
    /\ s[1] = "_v"
    /\ s[2] \in DigitTokens
    /\ \E k \in 2..Len(s) :
          /\ \A i \in 2..k : s[i] \in DigitTokens
          /\ (k = Len(s) \/ MatchesVersionRun(SubSeq(s, k + 1, Len(s))))

\* where '$' holds after a '.m3u': at the end of the name, or before a line
\* feed that ends it; 0 if the name has no such '.m3u'
FinalM3u(name) ==
    IF EndsWith(name, ".m3u") THEN Len(name)
    ELSE IF Len(name) >= 2 /\ name[Len(name)] = "\n" /\ name[Len(name) - 1] = ".m3u"
    THEN Len(name) - 1
    ELSE 0

\* the starts of the matches of (_v\d+)+(?=\.m3u$): the text up to the final
\* '.m3u' is in the language
MatchStarts(name) ==
    {i \in 1..(FinalM3u(name) - 1) :
        MatchesVersionRun(SubSeq(name, i, FinalM3u(name) - 1))}

\* faulty variant: the match that starts last, a single suffix, is removed
strip_version_last_suffix(name) ==
    IF MatchStarts(name) = {} THEN name
    ELSE LET i == CHOOSE j \in MatchStarts(name) : \A k \in MatchStarts(name) : k <= j
         IN SubSeq(name, 1, i - 1) \o SubSeq(name, FinalM3u(name), Len(name))

\* re.sub replaces the leftmost match; every match ends at the final '.m3u',
\* so there is one replacement
strip_version_re(name) ==
    IF MatchStarts(name) = {} THEN name
    ELSE LET i == CHOOSE j \in MatchStarts(name) : \A k \in MatchStarts(name) : j <= k
         IN SubSeq(name, 1, i - 1) \o SubSeq(name, FinalM3u(name), Len(name))

\* re.search(r"_v\d+\.m3u$", file)
IsVersioned(name) ==
    /\ Len(name) >= 2
    /\ name[Len(name)] = ".m3u"
    /\ name[Len(name) - 1] \in VersionTokens

\* file[:-5] + ".m3u"
RenamedM3u(name) == SubSeq(name, 1, Len(name) - 1) \o <<".m3u">>

\* the components of a path: [x for x in path.split('/') if x]
Components(path) == SelectSeq(SplitSlash(path, <<>>), LAMBDA c : c # <<>>)

\* posixpath.abspath
abspath(path) ==
    IF path # <<>> /\ Head(path) = "/" THEN normpath(path)
    ELSE normpath(Cwd \o <<"/">> \o path)

RECURSIVE CommonPrefixLen(_, _)
CommonPrefixLen(a, b) ==
    IF a = <<>> \/ b = <<>> \/ Head(a) # Head(b) THEN 0
    ELSE 1 + CommonPrefixLen(Tail(a), Tail(b))

\* posixpath.relpath(path, start)
relpath(path, start) ==
    LET start_list == Components(abspath(start))
        path_list  == Components(abspath(path))
        i          == CommonPrefixLen(start_list, path_list)
        rel_list   == [k \in 1..(Len(start_list) - i) |-> <<"..">>]
                        \o SubSeq(path_list, i + 1, Len(path_list))
    IN IF rel_list = <<>> THEN <<".">> ELSE JoinSlash(rel_list)

make_relative(line, base_path) ==
    LET l == strip(line) IN
    IF StartsWithHash(l) \/ l = <<>> THEN l
    ELSE ReplaceBackslash(normpath(relpath(l, base_path)))

----------------------------------------------------------------------------
(* conversion.py: files and folders *)

\* a file of a folder: whether it exists, and its lines
Absent == [exists |-> FALSE, lines |-> <<>>]
FileOf(lines) == [exists |-> TRUE, lines |-> lines]

\* a device root folder that does not exist: os.listdir raises FileNotFoundError
MissingFolder == [n \in {} |-> Absent]
FolderMissing(folder) == DOMAIN folder = {}

\* os.listdir(folder)
ListDir(folder) == {n \in DOMAIN folder : folder[n].exists}

\* a device file as the resolver meets it
DeviceFile(d, name) ==
    [name |-> name, status |-> IF dev[d][name].exists THEN "ok" ELSE "missing",
     lines |-> dev[d][name].lines]

\* one file write, as the pass records it
Wrote(store, name) == [store |-> store, name |-> name]

\* playlist_name.replace(".m3u", "")
BaseOf(name) == SelectSeq(name, LAMBDA t : t # ".m3u")

\* the fingerprint the pass compares: checksum(clean_for_hash(lines))
Fingerprint(lines) == checksum(clean_for_hash(lines))

----------------------------------------------------------------------------
(* conversion.py: should_process, create_backup, process_to_conversion *)

\* should_process: whether the file may be processed now
\* faulty variant: an event exactly delay seconds after the last is dropped too
ShouldProcessInclusive(rp, name, delay, t) ==
    ~(name \in DOMAIN rp /\ t - rp[name] <= delay)

ShouldProcess(rp, name, delay, t) ==
    ~(name \in DOMAIN rp /\ t - rp[name] < delay)

\* should_process: recently_processed afterwards
MarkProcessed(rp, name, t) ==
    [n \in DOMAIN rp \cup {name} |-> IF n = name THEN t ELSE rp[n]]

\* should_process (lines 345-355) run without interruption
should_process(rp, name, delay, t) ==
    IF ShouldProcess(rp, name, delay, t)
    THEN [result |-> TRUE, rp |-> MarkProcessed(rp, name, t)]
    ELSE [result |-> FALSE, rp |-> rp]

\* str.startswith / str.endswith on file names
StartsWithSeq(name, prefix) ==
    Len(name) >= Len(prefix) /\ SubSeq(name, 1, Len(prefix)) = prefix

\* the name create_backup gives a backup written in second t (lines 373-374)
BackupName(clean_name, t) == clean_name \o <<"_", ToString(t), ".m3u">>

\* modification time of the next file written to a folder: files are ordered
\* by the order in which they were written
NextMtime(files) ==
    IF files = {} THEN 1
    ELSE 1 + (CHOOSE m \in {f.mtime : f \in files} : \A f \in files : f.mtime <= m)

\* open(path, "w") and write: a file of that name is replaced
WriteFile(files, fname, content) ==
    {f \in files : f.fname # fname}
        \cup {[fname |-> fname, mtime |-> NextMtime(files), lines |-> content]}

\* the backups create_backup lists for one playlist (lines 388-395)
BackupsOf(bk, clean_name) ==
    {b \in bk : StartsWithSeq(b.fname, clean_name \o <<"_">>) /\ EndsWith(b.fname, ".m3u")}

\* the oldest of a set of backups, by modification time: all but the k newest
OldestIn(S, k) ==
    {b \in S : Cardinality({o \in S : o.mtime > b.mtime}) >= k}

\* create_backup: the Backups folder afterwards
create_backup(bk, clean_name, content, max_backups, t) ==
    LET written == WriteFile(bk, BackupName(clean_name, t), content)
        mine    == BackupsOf(written, clean_name)
    IN IF Cardinality(mine) > max_backups
       THEN written \ OldestIn(mine, max_backups)
       ELSE written

NotReconcileHeader(line) ==
    ~\E tag \in {TAG_GENERATED, TAG_SOURCE, TAG_TARGET} : StartsWithTag(line, tag)

\* the three header lines of a reconciled playlist (lines 426-430)
ReconcileHeader(origin, t) ==
    << <<TAG_GENERATED, " ", ToString(t)>>,
       <<TAG_SOURCE, ":", " ", origin>>,
       <<TAG_TARGET, ":", " ", IF origin = "PC" THEN "Smartphone" ELSE "PC">> >>

\* process_to_conversion: the reconciled lines (dev_mode off)
Converted(lines, origin, t) ==
    LET filtered_lines == SelectSeq(lines, NotReconcileHeader)
        rel_folder     == IF origin = "PC" THEN PcFolder ELSE PhoneFolder
    IN ReconcileHeader(origin, t)
         \o [i \in 1..Len(filtered_lines) |-> make_relative(filtered_lines[i], rel_folder)]

\* what process_to_conversion and handle_single_conflict read and write:
\* recently_processed, Backups, Conversion, Conflicts and the record of writes
Stores == [rp |-> recently_processed, bk |-> backups, conv |-> conv,
           cdir |-> conflicts_dir, wlog |-> wlog]

\* process_to_conversion that writes the backup and the staged copy in a
\* dry-run too
process_to_conversion_ignoring_dry_run(st, d, name, origin, c, dry, t) ==
    IF ~ShouldProcess(st.rp, name, c.delay, t) THEN st
    ELSE LET clean_name == strip_version(name)
             content    == Converted(dev[d][name].lines, origin, t)
         IN [st EXCEPT
               !.rp   = MarkProcessed(st.rp, name, t),
               !.bk   = create_backup(st.bk, clean_name, content, c.max_backups, t),
               !.conv = [st.conv EXCEPT ![clean_name] = FileOf(content)],
               !.wlog = st.wlog \o <<Wrote("backups", clean_name),
                                     Wrote("conversion", clean_name)>>]

process_to_conversion(st, d, name, origin, c, dry, t) ==
    IF ~ShouldProcess(st.rp, name, c.delay, t) THEN st
    ELSE LET clean_name == strip_version(name)
             content    == Converted(dev[d][name].lines, origin, t)
         IN IF dry
            THEN [st EXCEPT !.rp = MarkProcessed(st.rp, name, t)]
            ELSE [st EXCEPT
                    !.rp   = MarkProcessed(st.rp, name, t),
                    !.bk   = create_backup(st.bk, clean_name, content, c.max_backups, t),
                    !.conv = [st.conv EXCEPT ![clean_name] = FileOf(content)],
                    !.wlog = st.wlog \o <<Wrote("backups", clean_name),
                                          Wrote("conversion", clean_name)>>]

\* the step of a reconciliation at which an I/O error is raised, if any:
\* reading the device file, writing the backup, writing the staged copy
NoFault == "none"
IoFaults == {"read", "backup", "stage"}

\* create_backup when the write of the backup file may fail: the error is
\* caught (lines 385-386) and the pruning of lines 388-403 still runs
create_backup_io(bk, clean_name, content, max_backups, t, fail) ==
    LET written == IF fail = "backup" THEN bk
                   ELSE WriteFile(bk, BackupName(clean_name, t), content)
        mine    == BackupsOf(written, clean_name)
    IN IF Cardinality(mine) > max_backups
       THEN written \ OldestIn(mine, max_backups)
       ELSE written

\* process_to_conversion with an I/O error at one step: the except clause of
\* lines 453-455 ends the call at a failed read or a failed staging write,
\* while a failed backup is caught inside create_backup and the staged copy
\* is written all the same
process_to_conversion_io(st, d, name, origin, c, dry, t, fail) ==
    IF fail = NoFault THEN process_to_conversion(st, d, name, origin, c, dry, t)
    ELSE IF ~ShouldProcess(st.rp, name, c.delay, t) THEN st
    ELSE LET clean_name == strip_version(name)
             content    == Converted(dev[d][name].lines, origin, t)
             marked     == [st EXCEPT !.rp = MarkProcessed(st.rp, name, t)]
         IN IF fail = "read" \/ dry THEN marked
            ELSE IF fail = "backup"
            THEN [marked EXCEPT
                    !.bk   = create_backup_io(st.bk, clean_name, content, c.max_backups,
                                              t, fail),
                    !.conv = [st.conv EXCEPT ![clean_name] = FileOf(content)],
                    !.wlog = st.wlog \o <<Wrote("conversion", clean_name)>>]
            ELSE [marked EXCEPT
                    !.bk   = create_backup(st.bk, clean_name, content, c.max_backups, t),
                    !.wlog = st.wlog \o <<Wrote("backups", clean_name)>>]

----------------------------------------------------------------------------
(* conversion.py: conflict detection and handling *)

\* the two snapshot files backup_conflict_versions writes
ConflictSnapshots(conflict, t) ==
    { [base |-> BaseOf(conflict.playlist_name), side |-> "PC", ts |-> t,
       lines |-> << <<"#", " ", "PC version backup">> >>
                    \o [i \in 1..Len(conflict.pc_version) |-> conflict.pc_version[i].path]],
      [base |-> BaseOf(conflict.playlist_name), side |-> "PHONE", ts |-> t,
       lines |-> << <<"#", " ", "Smartphone version backup">> >>
                    \o [i \in 1..Len(conflict.smartphone_version) |->
                            conflict.smartphone_version[i].path]] }

backup_conflict_versions(st, conflict, t) ==
    LET snaps == ConflictSnapshots(conflict, t)
    IN [st EXCEPT
          !.cdir = {f \in st.cdir :
                       ~\E n \in snaps : n.base = f.base /\ n.side = f.side /\ n.ts = f.ts}
                     \cup snaps,
          !.wlog = st.wlog \o <<Wrote("conflicts", BaseOf(conflict.playlist_name) \o <<"_PC">>),
                                Wrote("conflicts", BaseOf(conflict.playlist_name) \o <<"_PHONE">>)>>]

\* faulty variant: resolves although auto_resolve_conflicts is off
handle_single_conflict_always_auto(st, conflict, c, dry, t) ==
    LET st1 == IF c.backup_before_resolve /\ ~dry
               THEN backup_conflict_versions(st, conflict, t) ELSE st
        resolved_entries == resolve_conflict(conflict, c.conflict_resolution)
    IN IF resolved_entries # None /\ ~dry
       THEN [st1 EXCEPT
               !.conv = [st1.conv EXCEPT ![conflict.playlist_name] =
                           FileOf(write_resolved_playlist(resolved_entries.entries, t))],
               !.rp   = MarkProcessed(st1.rp, conflict.playlist_name, t),
               !.wlog = st1.wlog \o <<Wrote("conversion", conflict.playlist_name)>>]
       ELSE st1

handle_single_conflict(st, conflict, c, dry, t) ==
    LET st1 == IF c.backup_before_resolve /\ ~dry
               THEN backup_conflict_versions(st, conflict, t) ELSE st
    IN IF c.auto_resolve_conflicts
       THEN LET resolved_entries == resolve_conflict(conflict, c.conflict_resolution)
            IN IF resolved_entries # None /\ ~dry
               THEN [st1 EXCEPT
                       !.conv = [st1.conv EXCEPT ![conflict.playlist_name] =
                                   FileOf(write_resolved_playlist(resolved_entries.entries, t))],
                       !.rp   = MarkProcessed(st1.rp, conflict.playlist_name, t),
                       !.wlog = st1.wlog \o <<Wrote("conversion", conflict.playlist_name)>>]
               ELSE st1
       ELSE st1

\* the step of handle_single_conflict at which an I/O error may be raised: the
\* open() of write_resolved_playlist
ConflictFaults == {"write"}

\* line 157: the conflict is logged as auto-resolved
reports_auto_resolved(conflict, c, dry) ==
    /\ c.auto_resolve_conflicts
    /\ resolve_conflict(conflict, c.conflict_resolution) # None
    /\ ~dry

\* handle_single_conflict with an I/O error at the write of the resolved
\* playlist: write_resolved_playlist catches and logs it (lines 241-242 of
\* conflict_resolution_system.py) and returns normally, the caller goes on
\* with lines 157-160
handle_single_conflict_io(st, conflict, c, dry, t, fail) ==
    LET st1 == IF c.backup_before_resolve /\ ~dry
               THEN backup_conflict_versions(st, conflict, t) ELSE st
    IN IF fail = NoFault THEN handle_single_conflict(st, conflict, c, dry, t)
       ELSE IF reports_auto_resolved(conflict, c, dry)
       THEN [st1 EXCEPT !.rp = MarkProcessed(st1.rp, conflict.playlist_name, t)]
       ELSE st1

\* the dict a folder scan builds (lines 94-97, 103-106): clean name -> file; of
\* several files with one clean name the one listed last stays
PlaylistDicts(folder) ==
    LET files == {n \in ListDir(folder) : EndsWith(n, ".m3u")}
        keys  == {strip_version(n) : n \in files}
    IN {f \in [keys -> files] : \A k \in keys : strip_version(f[k]) = k}

\* conflicts_found, for the two dicts of one scan
ConflictsFound(pc_playlists, smartphone_playlists) ==
    LET common_playlists == DOMAIN pc_playlists \cap DOMAIN smartphone_playlists
        found(k) == detect_conflict(DeviceFile("pc", pc_playlists[k]),
                                    DeviceFile("smartphone", smartphone_playlists[k]))
    IN {found(k) : k \in {n \in common_playlists : found(n) # None}}

\* faulty variant: the conflicts found are left for later, none is handled
HandleConflictsDeferred(st, found, c, dry, t) == st

\* the loop of lines 130-131 over conflicts_found
RECURSIVE HandleConflicts(_, _, _, _, _)
HandleConflicts(st, found, c, dry, t) ==
    IF found = {} THEN st
    ELSE LET conflict == CHOOSE x \in found : TRUE
         IN HandleConflicts(handle_single_conflict(st, conflict, c, dry, t),
                            found \ {conflict}, c, dry, t)

----------------------------------------------------------------------------
(* conversion.py: push_from_conversion and WatchHandler.handle_event *)

\* "/PC/" in stripped
ContainsPC(line) ==
    \E i \in 1..(Len(line) - 2) : line[i] = "/" /\ line[i + 1] = "PC" /\ line[i + 2] = "/"

\* the loop of lines 463-467 stops at the first line that is not empty and no comment
TrackLines(lines) ==
    SelectSeq([i \in 1..Len(lines) |-> strip(lines[i])],
              LAMBDA l : l # <<>> /\ ~StartsWithHash(l))

\* lines 468-472: the folder a playlist is pushed to, from its first track line
PushTarget(stripped) ==
    IF ContainsPC(stripped) \/ (stripped # <<>> /\ Head(stripped) = "..")
    THEN "smartphone" ELSE "pc"

EndOfBlock(rpf, folder_key, clean_name, until) ==
    [rpf EXCEPT ![folder_key] =
        [n \in DOMAIN rpf[folder_key] \cup {clean_name} |->
            IF n = clean_name THEN until ELSE rpf[folder_key][n]]]

\* what handle_event reads and writes: the stores, the device folders and
\* recently_pushed_files
WatchStores ==
    [rp |-> recently_processed, bk |-> backups, conv |-> conv, cdir |-> conflicts_dir,
     wlog |-> <<>>, dev |-> dev, rpf |-> recently_pushed_files]

\* push_from_conversion(conv_path, cfg) for the file name of folder d
push_from_conversion(st, d, name, c, dry, t) ==
    LET lines      == st.dev[d][name].lines
        clean_name == strip_version(name)
        tracks     == TrackLines(lines)
    IN IF tracks = <<>> \/ dry THEN st
       ELSE LET folder_key == PushTarget(tracks[1])
            IN [st EXCEPT
                  !.dev  = [st.dev EXCEPT ![folder_key][clean_name] = FileOf(lines)],
                  !.rpf  = EndOfBlock(st.rpf, folder_key, clean_name, t + c.block_duration),
                  !.rp   = MarkProcessed(st.rp, clean_name, t),
                  !.wlog = st.wlog \o <<Wrote(folder_key, clean_name)>>]

OtherDevice(d) == IF d = "pc" THEN "smartphone" ELSE "pc"

\* lines 521-527: the conflict handle_event builds for the file of the event,
\* with the path of the event as first argument of detect_conflict
event_conflict(d, filename) ==
    IF dev[OtherDevice(d)][filename].exists
    THEN detect_conflict(DeviceFile(d, filename), DeviceFile(OtherDevice(d), filename))
    ELSE None

\* WatchHandler.handle_event for a change of file filename in folder d
handle_event(st, d, filename, c, dry, t) ==
    LET other    == OtherDevice(d)
        conflict == IF st.dev[other][filename].exists
                    THEN detect_conflict(DeviceFile(d, filename), DeviceFile(other, filename))
                    ELSE None
        checked  == should_process(st.rp, filename, c.delay, t)
        st1      == [st EXCEPT !.rp = checked.rp]
    IN IF conflict # None THEN handle_single_conflict(st, conflict, c, dry, t)
       ELSE IF ~checked.result THEN st1
       ELSE IF d = "pc" THEN process_to_conversion(st1, d, filename, "PC", c, dry, t)
       ELSE push_from_conversion(st1, d, filename, c, dry, t)

----------------------------------------------------------------------------
(* PlaylistConverter.py: the stand-alone engine, which pushes after staging *)

\* the three tags clean_for_hash of PlaylistConverter.py leaves out (line 252)
LegacyHashTags == {TAG_GENERATED, TAG_SOURCE, TAG_TARGET}

LegacyKeptForHash(line) ==
    /\ strip(line) # <<>>
    /\ ~\E tag \in LegacyHashTags : StartsWithTag(lstrip(line), tag)

legacy_clean_for_hash(lines) ==
    LET kept == SelectSeq(lines, LegacyKeptForHash)
    IN JoinNewline([i \in 1..Len(kept) |-> strip(kept[i])])

\* the steps of a reconciliation of PlaylistConverter.py at which an I/O error
\* may be raised
FaultSteps == {"stage", "backup", "push"}

\* push_from_conversion(conv_path) for the staged file of that name; an error
\* of open() is caught and logged (lines 353-354)
legacy_push_from_conversion(st, name, c, t, fail) ==
    LET lines      == st.conv[name].lines
        clean_name == strip_version(name)
        tracks     == TrackLines(lines)
    IN IF tracks = <<>> \/ fail = "push" THEN st
       ELSE LET folder_key == PushTarget(tracks[1])
            IN [st EXCEPT
                  !.dev  = [st.dev EXCEPT ![folder_key][clean_name] = FileOf(lines)],
                  !.rpf  = EndOfBlock(st.rpf, folder_key, clean_name, t + c.block_duration),
                  !.rp   = MarkProcessed(st.rp, clean_name, t),
                  !.wlog = st.wlog \o <<Wrote(folder_key, clean_name)>>]

\* process_to_conversion(src_path, origin) of PlaylistConverter.py: the staged
\* copy is written first, then the backup, then the push; an error at one step
\* ends the call (lines 328-329)
legacy_process_to_conversion(st, d, name, origin, c, t, fail) ==
    LET clean_name == strip_version(name)
        converted  == Converted(st.dev[d][name].lines, origin, t)
        new_hash   == checksum(legacy_clean_for_hash(converted))
        staged     == [st EXCEPT
                         !.conv = [st.conv EXCEPT ![clean_name] = FileOf(converted)],
                         !.wlog = st.wlog \o <<Wrote("conversion", clean_name)>>]
        backed_up  == [staged EXCEPT
                         !.bk   = create_backup(staged.bk, clean_name, converted,
                                                c.max_backups, t),
                         !.wlog = staged.wlog \o <<Wrote("backups", clean_name)>>]
    IN IF /\ st.conv[clean_name].exists
          /\ new_hash = checksum(legacy_clean_for_hash(st.conv[clean_name].lines))
       THEN st
       ELSE IF fail = "stage" THEN st
       ELSE IF fail = "backup" THEN staged
       ELSE legacy_push_from_conversion(backed_up, clean_name, c, t, fail)

\* WatchHandler.handle_event of PlaylistConverter.py for a file of folder d
legacy_handle_event(st, d, file_name, c, t, fail) ==
    LET skip_until == IF file_name \in DOMAIN st.rpf[d] THEN st.rpf[d][file_name] ELSE 0
        checked    == should_process(st.rp, file_name, c.delay, t)
        st1        == [st EXCEPT !.rp = checked.rp]
    IN IF ~EndsWith(file_name, ".m3u") THEN st
       ELSE IF t < skip_until THEN st
       ELSE IF ~checked.result THEN st1
       ELSE legacy_process_to_conversion(st1, d, file_name, LabelOf(d), c, t, fail)

----------------------------------------------------------------------------
(* conversion.py: remove_duplicates_from_playlist *)

\* the name of the copy made before duplicates are removed (line 235)
PreDedupName(name, t) == name \o <<"_", ToString(t), "_pre_dedup", ".m3u">>

\* duplicates_removed (lines 221-228), for the lines of a playlist file
DuplicatesRemoved(lines) ==
    LET entries       == parse_playlist_file([name |-> Rock, status |-> "ok", lines |-> lines])
        clean_entries == remove_duplicates(entries)
    IN Len(SelectSeq(entries, IsTrack)) - Len(SelectSeq(clean_entries, IsTrack))

\* the playlist file as remove_duplicates_from_playlist rewrites it (line 244)
Deduplicated(lines, t) ==
    write_resolved_playlist(
        remove_duplicates(parse_playlist_file([name |-> Rock, status |-> "ok",
                                               lines |-> lines])), t)

----------------------------------------------------------------------------
(* conversion.py: initial_sync_with_comparison *)

\* convert_m3u8_to_m3u on one folder: os.rename replaces a file of the new name
RenameM3u8(folder) ==
    LET olds == {n \in ListDir(folder) : EndsWith(n, ".m3u8")}
    IN [n \in DOMAIN folder |->
          IF \E o \in olds : RenamedM3u(o) = n
          THEN folder[CHOOSE o \in olds : RenamedM3u(o) = n]
          ELSE IF n \in olds THEN Absent
          ELSE folder[n]]

\* the files of a folder listing that pass the test of line 314
LoopFiles(folder) ==
    {n \in ListDir(folder) : EndsWith(n, ".m3u") /\ ~IsVersioned(n)}

\* the comparison of lines 365-376 of PlaylistConverter.py: the staged copy
\* has the fingerprint of the device file
LegacyNoChange(st, d, file) ==
    /\ st.conv[strip_version(file)].exists
    /\ checksum(legacy_clean_for_hash(st.dev[d][file].lines))
         = checksum(legacy_clean_for_hash(st.conv[strip_version(file)].lines))

\* the orders in which os.listdir may report a set of names
ListingOrders(names) ==
    {o \in [1..Cardinality(names) -> names] :
        \A i, j \in DOMAIN o : i # j => o[i] # o[j]}

\* the loop of lines 361-383 over the files of one folder, visited in the
\* order of the listing
LegacySyncFiles(st, d, order, c, t) ==
    LET after[i \in 0..Len(order)] ==
            IF i = 0 THEN st
            ELSE IF LegacyNoChange(after[i - 1], d, order[i])
                 THEN after[i - 1]
                 ELSE legacy_process_to_conversion(after[i - 1], d, order[i], LabelOf(d),
                                                   c, t, NoFault)
    IN after[Len(order)]

\* lines 357-358: convert_m3u8_to_m3u for both device folders
legacy_convert_folders(st) ==
    [st EXCEPT !.dev = [d \in Devices |-> RenameM3u8(st.dev[d])]]

FolderKeys == <<"smartphone", "pc">>

\* the staged copy has the same fingerprint as the file (lines 325-335)
NoChange(d, file, staged) ==
    LET conv_file == staged[strip_version(file)]
    IN /\ conv_file.exists
       /\ Fingerprint(dev[d][file].lines) = Fingerprint(conv_file.lines)

\* the SyncConfig values the program may be started with
DelayChoices == {0, 1}
MaxBackupChoices == {1, 2}
StrategyChoices == {PC_WINS, MERGE_NO_DUPLICATES, MANUAL, SKIP}
DefaultConfig ==
    [delay |-> 1, block_duration |-> 2, max_backups |-> 2,
     conflict_resolution |-> MERGE_NO_DUPLICATES,
     auto_resolve_conflicts |-> TRUE, backup_before_resolve |-> TRUE]

ConfigFields ==
    {"delay", "block_duration", "max_backups", "conflict_resolution",
     "auto_resolve_conflicts", "backup_before_resolve"}

\* the default configuration and the ones that differ from it in one setting
Configs ==
    {c \in [delay : DelayChoices, block_duration : {2}, max_backups : MaxBackupChoices,
            conflict_resolution : StrategyChoices,
            auto_resolve_conflicts : BOOLEAN, backup_before_resolve : BOOLEAN] :
        Cardinality({f \in ConfigFields : c[f] # DefaultConfig[f]}) <= 1}

ThreadIds == {"watcher", "scheduler"}

\* nothing was pushed yet and no thread is inside should_process
WatchAtRest ==
    /\ recently_pushed_files = [d \in Devices |-> [n \in {} |-> 0]]
    /\ threads = [th \in ThreadIds |-> [pc |-> "idle"]]

\* playlists the device folders are drawn from
ContentPool ==
    { << <<"/", "m", "/", "PC", "/", "S", "/", "a">> >>,      \* /m/PC/S/a.mp3
      << <<"#", "c">>, <<"b">> >>,                            \* a comment, b.mp3
      << <<"..", "/", "..", "/", "app", "/", "a">> >> }       \* ../../app/a.mp3

FileChoices == {Absent} \cup {FileOf(c) : c \in ContentPool}

FilesPresent(folders) ==
    Cardinality({x \in Devices \X FileNames : folders[x[1]][x[2]].exists})

Init ==
    /\ dev \in [Devices -> [FileNames -> FileChoices]]
    /\ FilesPresent(dev) <= MaxFiles
    /\ conv = [n \in FileNames |-> Absent]
    /\ backups = {}
    /\ conflicts_dir = {}
    /\ recently_processed = [n \in {} |-> 0]
    /\ now = 0
    /\ phase = "idle"
    /\ cfg \in Configs
    /\ dry_run \in BOOLEAN
    /\ conflict_files = {}
    /\ folder_idx = 1
    /\ remaining = {}
    /\ wlog = <<>>
    /\ passes = 0
    /\ edits = 0
    /\ changed = FALSE
    /\ pre_dev = dev
    /\ fileA = <<>> /\ fileB = <<>> /\ op = "none" /\ arg = None /\ res = None
    /\ conflict_rules = NoRules
    /\ hist = <<>>
    /\ WatchAtRest

\* lines 303-306: detect_and_handle_conflicts, then the names to skip
StartPass ==
    /\ phase = "idle"
    /\ passes < MaxPasses
    /\ \E pc_playlists \in PlaylistDicts(dev["pc"]),
          smartphone_playlists \in PlaylistDicts(dev["smartphone"]) :
          LET found == ConflictsFound(pc_playlists, smartphone_playlists)
              st    == HandleConflicts([Stores EXCEPT !.wlog = <<>>], found, cfg, dry_run, now)
          IN /\ conflict_files' = {x.playlist_name : x \in found}
             /\ recently_processed' = st.rp
             /\ conv' = st.conv
             /\ conflicts_dir' = st.cdir
             /\ wlog' = st.wlog
    /\ phase' = "convert"
    /\ pre_dev' = dev
    /\ changed' = FALSE
    /\ UNCHANGED <<dev, backups, now, cfg, dry_run, folder_idx, remaining, passes, edits>>
    /\ UNCHANGED rvars
    /\ UNCHANGED wvars

\* lines 309-312: the two renaming scans, then the listing of the first folder
ConvertM3u8 ==
    /\ phase = "convert"
    /\ \A d \in Devices : ~FolderMissing(dev[d])
    /\ LET renamed == IF dry_run THEN dev
                      ELSE [d \in Devices |-> RenameM3u8(dev[d])]
           moved   == {x \in Devices \X FileNames :
                          dev[x[1]][x[2]].exists /\ EndsWith(x[2], ".m3u8")}
       IN /\ dev' = renamed
          /\ wlog' = IF dry_run \/ moved = {} THEN wlog
                     ELSE wlog \o IF \E x \in moved : x[1] = "pc"
                                  THEN <<Wrote("pc", Rock)>> ELSE <<>>
                               \o IF \E x \in moved : x[1] = "smartphone"
                                  THEN <<Wrote("smartphone", Rock)>> ELSE <<>>
          /\ remaining' = LoopFiles(renamed[FolderKeys[1]])
    /\ folder_idx' = 1
    /\ phase' = "loop"
    /\ UNCHANGED <<conv, backups, conflicts_dir, recently_processed, now, cfg, dry_run,
                   conflict_files, passes, edits, changed, pre_dev>>
    /\ UNCHANGED rvars
    /\ UNCHANGED wvars

\* lines 309-310 with a device root folder missing: os.listdir of
\* convert_m3u8_to_m3u (line 359) raises and nothing catches it, the pass ends
\* with the exception; the PC folder is scanned first
ConvertM3u8Raises ==
    /\ phase = "convert"
    /\ \E d \in Devices : FolderMissing(dev[d])
    /\ LET scanned == ~FolderMissing(dev["pc"]) /\ ~dry_run
           moved   == {n \in ListDir(dev["pc"]) : EndsWith(n, ".m3u8")}
       IN /\ dev' = IF scanned THEN [dev EXCEPT !["pc"] = RenameM3u8(dev["pc"])] ELSE dev
          /\ wlog' = IF scanned /\ moved # {} THEN wlog \o <<Wrote("pc", Rock)>> ELSE wlog
    /\ phase' = "raised"
    /\ UNCHANGED <<conv, backups, conflicts_dir, recently_processed, now, cfg, dry_run,
                   conflict_files, folder_idx, remaining, passes, edits, changed, pre_dev>>
    /\ UNCHANGED rvars
    /\ UNCHANGED wvars

\* lines 313-342: one file of the current folder
ProcessFile ==
    /\ phase = "loop"
    /\ \E file \in remaining :
         LET d  == FolderKeys[folder_idx]
             st == IF file \in conflict_files \/ NoChange(d, file, conv) THEN Stores
                   ELSE process_to_conversion(Stores, d, file, LabelOf(d), cfg, dry_run, now)
         IN /\ remaining' = remaining \ {file}
            /\ recently_processed' = st.rp
            /\ backups' = st.bk
            /\ conv' = st.conv
            /\ wlog' = st.wlog
    /\ UNCHANGED <<dev, conflicts_dir, now, phase, cfg, dry_run, conflict_files,
                   folder_idx, passes, edits, changed, pre_dev>>
    /\ UNCHANGED rvars
    /\ UNCHANGED wvars

\* lines 313-342 with an I/O error at one step for the file: a failed read of
\* the loop (line 321) is caught at line 340 and the loop goes on; the errors
\* inside process_to_conversion are caught there
ProcessFileIO ==
    /\ phase = "loop"
    /\ Len(hist) < MaxCalls
    /\ \E file \in remaining, fail \in {NoFault} \cup IoFaults :
         /\ fail # NoFault => \A i \in 1..Len(hist) : hist[i].fail = NoFault
         /\ \E st \in {IF file \in conflict_files \/ fail = "read" THEN Stores
                        ELSE IF NoChange(FolderKeys[folder_idx], file, conv) THEN Stores
                        ELSE process_to_conversion_io(Stores, FolderKeys[folder_idx], file,
                                                      LabelOf(FolderKeys[folder_idx]), cfg,
                                                      dry_run, now, fail)} :
              /\ remaining' = remaining \ {file}
              /\ recently_processed' = st.rp
              /\ backups' = st.bk
              /\ conv' = st.conv
              /\ wlog' = st.wlog
              /\ hist' = Append(hist, [op |-> "process_file", device |-> FolderKeys[folder_idx],
                                        name |-> file, t |-> now, fail |-> fail,
                                        skipped |-> file \in conflict_files])
    /\ UNCHANGED <<dev, conflicts_dir, now, phase, cfg, dry_run, conflict_files,
                   folder_idx, passes, edits, changed, pre_dev>>
    /\ UNCHANGED <<fileA, fileB, op, arg, res, conflict_rules>>
    /\ UNCHANGED wvars

\* line 312: the loop moves on to the next folder
NextFolder ==
    /\ phase = "loop"
    /\ remaining = {}
    /\ folder_idx < Len(FolderKeys)
    /\ folder_idx' = folder_idx + 1
    /\ remaining' = LoopFiles(dev[FolderKeys[folder_idx + 1]])
    /\ UNCHANGED <<dev, conv, backups, conflicts_dir, recently_processed, now, phase, cfg,
                   dry_run, conflict_files, wlog, passes, edits, changed, pre_dev>>
    /\ UNCHANGED rvars
    /\ UNCHANGED wvars

\* the pass returns
EndPass ==
    /\ phase = "loop"
    /\ remaining = {}
    /\ folder_idx = Len(FolderKeys)
    /\ phase' = "idle"
    /\ passes' = passes + 1
    /\ UNCHANGED <<dev, conv, backups, conflicts_dir, recently_processed, now, cfg,
                   dry_run, conflict_files, folder_idx, remaining, wlog, edits, changed,
                   pre_dev>>
    /\ UNCHANGED rvars
    /\ UNCHANGED wvars

\* a second of time passes
Tick ==
    /\ now < MaxTime
    /\ now' = now + 1
    /\ UNCHANGED <<dev, conv, backups, conflicts_dir, recently_processed, phase, cfg,
                   dry_run, conflict_files, folder_idx, remaining, wlog, passes, edits,
                   changed, pre_dev>>
    /\ UNCHANGED rvars
    /\ UNCHANGED wvars

\* the user, or another program, writes or deletes a playlist of a device folder
\* between two passes (what it does before the first pass is a choice of Init)
ExternalEdit ==
    /\ phase = "idle"
    /\ passes >= 1
    /\ edits < MaxEdits
    /\ \E d \in Devices, n \in FileNames, f \in FileChoices :
         /\ f # dev[d][n]
         /\ dev' = [dev EXCEPT ![d][n] = f]
    /\ edits' = edits + 1
    /\ changed' = TRUE
    /\ UNCHANGED <<conv, backups, conflicts_dir, recently_processed, now, phase, cfg,
                   dry_run, conflict_files, folder_idx, remaining, wlog, passes, pre_dev>>
    /\ UNCHANGED rvars
    /\ UNCHANGED wvars

Next ==
    \/ StartPass
    \/ ConvertM3u8
    \/ ProcessFile
    \/ NextFolder
    \/ EndPass
    \/ Tick
    \/ ExternalEdit

----------------------------------------------------------------------------
(* Resolver harness: the ConflictResolver operations applied to parsed files *)

\* lines the harness draws playlist files from
LinePool ==
    { <<"a">>,                  \* a.mp3
      <<"S", "\\", "A">>,       \* Songs\A.MP3, the same track by another path
      <<"b">>,                  \* b.mp3
      <<"#", "c">>,             \* a comment
      <<" ", "#", "c">>,        \* an indented comment
      <<"S", "/", "#", "x">> }  \* Songs/#x.mp3, a track whose file name starts with '#'

SeqsUpTo(S, n) == UNION {[1..k -> S] : k \in 0..n}

AsFile(lines, status) == [name |-> Rock, status |-> status, lines |-> lines]

EntriesA == parse_playlist_file(AsFile(fileA, "ok"))
EntriesB == parse_playlist_file(AsFile(fileB, "ok"))

InitResolver ==
    /\ fileA \in SeqsUpTo(LinePool, MaxLen)
    /\ fileB \in SeqsUpTo(LinePool, IF Len(fileA) <= MaxPairLen THEN MaxPairLen ELSE 0)
    /\ op = "none"
    /\ arg = None
    /\ res = None
    /\ conflict_rules = NoRules
    /\ hist = <<>>
    /\ WatchAtRest
    /\ dev = [d \in Devices |-> [n \in FileNames |-> Absent]]
    /\ conv = [n \in FileNames |-> Absent]
    /\ backups = {}
    /\ conflicts_dir = {}
    /\ recently_processed = [n \in {} |-> 0]
    /\ now = 0
    /\ phase = "idle"
    /\ cfg = DefaultConfig
    /\ dry_run = FALSE
    /\ conflict_files = {}
    /\ folder_idx = 1
    /\ remaining = {}
    /\ wlog = <<>>
    /\ passes = 0
    /\ edits = 0
    /\ changed = FALSE
    /\ pre_dev = dev

RemoveDuplicates ==
    /\ op = "none"
    /\ op' = "remove_duplicates"
    /\ arg' = None
    /\ res' = remove_duplicates(EntriesA)
    /\ UNCHANGED <<fileA, fileB, conflict_rules, hist>>
        /\ UNCHANGED svars
        /\ UNCHANGED wvars

FindDuplicates ==
    /\ op = "none"
    /\ op' = "find_duplicates"
    /\ arg' = None
    /\ res' = find_duplicates(EntriesA)
    /\ UNCHANGED <<fileA, fileB, conflict_rules, hist>>
        /\ UNCHANGED svars
        /\ UNCHANGED wvars

MergePlaylists ==
    \E dedupe \in BOOLEAN :
        /\ op = "none"
        /\ op' = "merge_playlists"
        /\ arg' = dedupe
        /\ res' = merge_playlists(EntriesA, EntriesB, dedupe)
        /\ UNCHANGED <<fileA, fileB, conflict_rules, hist>>
        /\ UNCHANGED svars
        /\ UNCHANGED wvars

DetectConflict ==
    \E stA \in FileStatus, stB \in FileStatus :
        /\ op = "none"
        /\ op' = "detect_conflict"
        /\ arg' = <<stA, stB>>
        /\ res' = detect_conflict(AsFile(fileA, stA), AsFile(fileB, stB))
        /\ UNCHANGED <<fileA, fileB, conflict_rules, hist>>
        /\ UNCHANGED svars
        /\ UNCHANGED wvars

ResolveConflict ==
    \E resolution \in ConflictResolution :
        LET conflict == detect_conflict(AsFile(fileA, "ok"), AsFile(fileB, "ok")) IN
        /\ op = "none"
        /\ conflict # None
        /\ op' = "resolve_conflict"
        /\ arg' = resolution
        /\ res' = resolve_conflict(conflict, resolution)
        /\ UNCHANGED <<fileA, fileB, conflict_rules, hist>>
        /\ UNCHANGED svars
        /\ UNCHANGED wvars

WriteResolved ==
    \E ts \in 1..2 :
        /\ op = "none"
        /\ op' = "write_resolved_playlist"
        /\ arg' = ts
        /\ res' = write_resolved_playlist(EntriesA, ts)
        /\ UNCHANGED <<fileA, fileB, conflict_rules, hist>>
        /\ UNCHANGED svars
        /\ UNCHANGED wvars

NextResolver ==
    \/ RemoveDuplicates
    \/ FindDuplicates
    \/ MergePlaylists
    \/ DetectConflict
    \/ ResolveConflict
    \/ WriteResolved

vars == <<rvars, svars, wvars>>

----------------------------------------------------------------------------
(* Backup harness: create_backup and remove_duplicates_from_playlist called on
   the Backups folder *)

RockLive == <<"Rock", ".m3u", "_", "live", ".m3u">>   \* the playlist Rock.m3u_live.m3u
BackupPlaylists == {Rock, RockLive}

\* a playlist with a track listed twice, and two converted contents
TwiceA == << <<"a">>, <<"a">> >>
BackupContents == { << <<"a">> >>, << <<"b">> >> }

InitBackup ==
    /\ dev \in [Devices -> [BackupPlaylists -> {Absent, FileOf(TwiceA)}]]
    /\ \A n \in BackupPlaylists : ~dev["smartphone"][n].exists
    /\ cfg \in {[DefaultConfig EXCEPT !.max_backups = k] : k \in MaxBackupChoices}
    /\ conv = [n \in FileNames |-> Absent]
    /\ backups = {}
    /\ conflicts_dir = {}
    /\ recently_processed = [n \in {} |-> 0]
    /\ now = 0
    /\ phase = "idle"
    /\ dry_run = FALSE
    /\ conflict_files = {}
    /\ folder_idx = 1
    /\ remaining = {}
    /\ wlog = <<>>
    /\ passes = 0
    /\ edits = 0
    /\ changed = FALSE
    /\ pre_dev = dev
    /\ fileA = <<>> /\ fileB = <<>> /\ op = "none" /\ arg = None /\ res = None
    /\ conflict_rules = NoRules
    /\ hist = <<>>
    /\ WatchAtRest

\* create_backup(clean_name, content, cfg)
CreateBackup ==
    \E clean_name \in BackupPlaylists, content \in BackupContents :
        /\ Len(hist) < MaxCalls
        /\ backups' = create_backup(backups, clean_name, content, cfg.max_backups, now)
        /\ hist' = Append(hist, [op |-> "create_backup", name |-> clean_name,
                                  t |-> now, lines |-> content])
        /\ UNCHANGED <<fileA, fileB, op, arg, res, conflict_rules>>
        /\ UNCHANGED wvars
        /\ UNCHANGED <<dev, conv, conflicts_dir, recently_processed, now, phase, cfg,
                       dry_run, conflict_files, folder_idx, remaining, wlog, passes,
                       edits, changed, pre_dev>>

\* the steps of remove_duplicates_from_playlist that can fail: the copy to
\* Backups (lines 241-243) and the rewriting of the playlist (line 246)
DedupFaults == {"backup", "write"}

\* remove_duplicates_from_playlist that rewrites the playlist whatever the count
\* of duplicates and the dry-run flag are, and keeps no copy
remove_duplicates_from_playlist_unguarded(d, name, fail) ==
    /\ dev[d][name].exists
    /\ dev' = [dev EXCEPT ![d][name] = FileOf(Deduplicated(dev[d][name].lines, now))]
    /\ backups' = backups
    /\ hist' = Append(hist, [op |-> "remove_duplicates_from_playlist", name |-> name,
                              device |-> d, t |-> now, lines |-> dev[d][name].lines,
                              fail |-> fail])

\* remove_duplicates_from_playlist(playlist_path, cfg, dry_run) on the file
\* name of device d (lines 217-258); fail names the step that raises.  A
\* failing copy leaves no file or an empty one in Backups and the exception
\* handler of line 256 ends the call; write_resolved_playlist catches its own
\* failure and leaves the playlist as it was or truncated
remove_duplicates_from_playlist(d, name, fail) ==
    /\ dev[d][name].exists
    /\ IF DuplicatesRemoved(dev[d][name].lines) > 0 /\ ~dry_run
       THEN CASE fail = "backup" ->
                   /\ backups' \in {backups,
                                    WriteFile(backups, PreDedupName(name, now), <<>>)}
                   /\ dev' = dev
              [] fail = "write" ->
                   /\ backups' = WriteFile(backups, PreDedupName(name, now),
                                           dev[d][name].lines)
                   /\ dev' \in {dev, [dev EXCEPT ![d][name] = FileOf(<<>>)]}
              [] OTHER ->
                   /\ backups' = WriteFile(backups, PreDedupName(name, now),
                                           dev[d][name].lines)
                   /\ dev' = [dev EXCEPT ![d][name] =
                                 FileOf(Deduplicated(dev[d][name].lines, now))]
       ELSE UNCHANGED <<backups, dev>>
    /\ hist' = Append(hist, [op |-> "remove_duplicates_from_playlist", name |-> name,
                              device |-> d, t |-> now, lines |-> dev[d][name].lines,
                              fail |-> fail])

\* remove_duplicates_from_playlist(playlist_path, cfg) on a file of a device
RemoveDuplicatesFromPlaylist ==
    \E d \in Devices, name \in BackupPlaylists :
        /\ Len(hist) < MaxCalls
        /\ remove_duplicates_from_playlist(d, name, NoFault)
        /\ UNCHANGED <<fileA, fileB, op, arg, res, conflict_rules>>
        /\ UNCHANGED wvars
        /\ UNCHANGED <<conv, conflicts_dir, recently_processed, now, phase, cfg,
                       dry_run, conflict_files, folder_idx, remaining, wlog, passes,
                       edits, changed, pre_dev>>

NextBackup ==
    \/ CreateBackup
    \/ RemoveDuplicatesFromPlaylist
    \/ Tick

SpecBackup == InitBackup /\ [][NextBackup]_vars

----------------------------------------------------------------------------
(* Debounce harness: should_process called by one caller after another, and
   by two threads at once *)

DebounceDelays == {0, 1, 2}
DebounceNames == {Rock, RockV2}

InitDebounce ==
    /\ cfg \in {[DefaultConfig EXCEPT !.delay = d] : d \in DebounceDelays}
    /\ dev = [d \in Devices |-> [n \in FileNames |-> Absent]]
    /\ conv = [n \in FileNames |-> Absent]
    /\ backups = {}
    /\ conflicts_dir = {}
    /\ recently_processed = [n \in {} |-> 0]
    /\ now = 0
    /\ phase = "idle"
    /\ dry_run = FALSE
    /\ conflict_files = {}
    /\ folder_idx = 1
    /\ remaining = {}
    /\ wlog = <<>>
    /\ passes = 0
    /\ edits = 0
    /\ changed = FALSE
    /\ pre_dev = dev
    /\ fileA = <<>> /\ fileB = <<>> /\ op = "none" /\ arg = None /\ res = None
    /\ conflict_rules = NoRules
    /\ hist = <<>>
    /\ WatchAtRest

\* one whole call of should_process
ShouldProcessCall ==
    \E name \in DebounceNames :
        LET r == should_process(recently_processed, name, cfg.delay, now) IN
        /\ Len(hist) < MaxCalls
        /\ recently_processed' = r.rp
        /\ hist' = Append(hist, [op |-> "should_process", name |-> name, t |-> now,
                                  result |-> r.result, before |-> recently_processed])
        /\ UNCHANGED <<fileA, fileB, op, arg, res, conflict_rules>>
        /\ UNCHANGED <<dev, conv, backups, conflicts_dir, now, phase, cfg, dry_run,
                       conflict_files, folder_idx, remaining, wlog, passes, edits,
                       changed, pre_dev>>
        /\ UNCHANGED wvars

NextDebounce ==
    \/ ShouldProcessCall
    \/ Tick

SpecDebounce == InitDebounce /\ [][NextDebounce]_vars

\* calls begun and not yet returned
InFlight == {th \in ThreadIds : threads[th].pc # "idle"}

\* lines 346-347: a thread enters should_process and reads the clock
EnterShouldProcess ==
    \E th \in ThreadIds, name \in DebounceNames :
        /\ threads[th].pc = "idle"
        /\ Len(hist) + Cardinality(InFlight) < MaxCalls
        /\ threads' = [threads EXCEPT ![th] = [pc |-> "check", name |-> name, now |-> now]]
        /\ UNCHANGED <<rvars, svars, recently_pushed_files>>

\* lines 348-353: the test against recently_processed
CheckRecent ==
    \E th \in ThreadIds :
        /\ threads[th].pc = "check"
        /\ IF ShouldProcess(recently_processed, threads[th].name, cfg.delay, threads[th].now)
           THEN /\ threads' = [threads EXCEPT ![th].pc = "record"]
                /\ UNCHANGED hist
           ELSE /\ threads' = [threads EXCEPT ![th] = [pc |-> "idle"]]
                /\ hist' = Append(hist, [op |-> "should_process", thread |-> th,
                                          name |-> threads[th].name, t |-> threads[th].now,
                                          result |-> FALSE])
        /\ UNCHANGED <<fileA, fileB, op, arg, res, conflict_rules>>
        /\ UNCHANGED <<svars, recently_pushed_files>>

\* lines 354-355: the time is recorded and the call returns True
RecordProcessed ==
    \E th \in ThreadIds :
        /\ threads[th].pc = "record"
        /\ recently_processed' = MarkProcessed(recently_processed, threads[th].name,
                                                threads[th].now)
        /\ threads' = [threads EXCEPT ![th] = [pc |-> "idle"]]
        /\ hist' = Append(hist, [op |-> "should_process", thread |-> th,
                                  name |-> threads[th].name, t |-> threads[th].now,
                                  result |-> TRUE])
        /\ UNCHANGED <<fileA, fileB, op, arg, res, conflict_rules>>
        /\ UNCHANGED <<dev, conv, backups, conflicts_dir, now, phase, cfg, dry_run,
                       conflict_files, folder_idx, remaining, wlog, passes, edits,
                       changed, pre_dev>>
        /\ UNCHANGED recently_pushed_files

NextThreads ==
    \/ EnterShouldProcess
    \/ CheckRecent
    \/ RecordProcessed
    \/ Tick

SpecThreads == InitDebounce /\ [][NextThreads]_vars

----------------------------------------------------------------------------
(* Watch harness: file events of the two device folders handled one by one *)

InitWatch ==
    /\ dev \in [Devices -> [FileNames -> FileChoices]]
    /\ FilesPresent(dev) <= MaxFiles
    /\ cfg \in Configs
    /\ dry_run = FALSE
    /\ conv = [n \in FileNames |-> Absent]
    /\ backups = {}
    /\ conflicts_dir = {}
    /\ recently_processed = [n \in {} |-> 0]
    /\ now = 0
    /\ phase = "idle"
    /\ conflict_files = {}
    /\ folder_idx = 1
    /\ remaining = {}
    /\ wlog = <<>>
    /\ passes = 0
    /\ edits = 0
    /\ changed = FALSE
    /\ pre_dev = dev
    /\ fileA = <<>> /\ fileB = <<>> /\ op = "none" /\ arg = None /\ res = None
    /\ conflict_rules = NoRules
    /\ hist = <<>>
    /\ WatchAtRest

\* on_created / on_modified of the handler of folder d for one of its files
HandleEvent ==
    \E d \in Devices, filename \in FileNames :
        LET st == handle_event(WatchStores, d, filename, cfg, dry_run, now) IN
        /\ Len(hist) < MaxEvents
        /\ dev[d][filename].exists
        /\ recently_processed' = st.rp
        /\ backups' = st.bk
        /\ conv' = st.conv
        /\ conflicts_dir' = st.cdir
        /\ wlog' = st.wlog
        /\ dev' = st.dev
        /\ recently_pushed_files' = st.rpf
        /\ hist' = Append(hist, [op |-> "handle_event", device |-> d, name |-> filename,
                                  t |-> now])
        /\ UNCHANGED <<fileA, fileB, op, arg, res, conflict_rules>>
        /\ UNCHANGED <<now, phase, cfg, dry_run, conflict_files, folder_idx, remaining,
                       passes, edits, changed, pre_dev>>
        /\ UNCHANGED threads

NextWatch ==
    \/ HandleEvent
    \/ Tick

SpecWatch == InitWatch /\ [][NextWatch]_vars

\* the state of the sync engine while only the resolver is exercised
EngineAtRest ==
    /\ dev = [d \in Devices |-> [n \in FileNames |-> Absent]]
    /\ conv = [n \in FileNames |-> Absent]
    /\ backups = {}
    /\ conflicts_dir = {}
    /\ recently_processed = [n \in {} |-> 0]
    /\ now = 0
    /\ phase = "idle"
    /\ cfg = DefaultConfig
    /\ dry_run = FALSE
    /\ conflict_files = {}
    /\ folder_idx = 1
    /\ remaining = {}
    /\ wlog = <<>>
    /\ passes = 0
    /\ edits = 0
    /\ changed = FALSE
    /\ pre_dev = dev

----------------------------------------------------------------------------
(* Conflict harness: handle_single_conflict called for the conflicts of the two
   device folders, with and without an I/O error at the resolved write *)

InitConflicts ==
    /\ dev \in [Devices -> [FileNames -> FileChoices]]
    /\ FilesPresent(dev) <= MaxFiles
    /\ cfg \in Configs
    /\ dry_run \in BOOLEAN
    /\ conv = [n \in FileNames |-> Absent]
    /\ backups = {}
    /\ conflicts_dir = {}
    /\ recently_processed = [n \in {} |-> 0]
    /\ now = 0
    /\ phase = "idle"
    /\ conflict_files = {}
    /\ folder_idx = 1
    /\ remaining = {}
    /\ wlog = <<>>
    /\ passes = 0
    /\ edits = 0
    /\ changed = FALSE
    /\ pre_dev = dev
    /\ fileA = <<>> /\ fileB = <<>> /\ op = "none" /\ arg = None /\ res = None
    /\ conflict_rules = NoRules
    /\ hist = <<>>
    /\ WatchAtRest

\* handle_single_conflict for the conflict of a PC file and a smartphone
\* file, as detect_and_handle_conflicts or the watch handler calls it
HandleSingleConflict ==
    \E pc_name \in FileNames, phone_name \in FileNames, fail \in {NoFault} \cup ConflictFaults :
        /\ Len(hist) < MaxEvents
        /\ dev["pc"][pc_name].exists /\ dev["smartphone"][phone_name].exists
        /\ \E conflict \in {detect_conflict(DeviceFile("pc", pc_name),
                                            DeviceFile("smartphone", phone_name))} :
            /\ conflict # None
            /\ \E st \in {handle_single_conflict_io(WatchStores, conflict, cfg, dry_run,
                                                    now, fail)} :
                /\ recently_processed' = st.rp
                /\ backups' = st.bk
                /\ conv' = st.conv
                /\ conflicts_dir' = st.cdir
                /\ wlog' = st.wlog
                /\ dev' = st.dev
                /\ recently_pushed_files' = st.rpf
            /\ hist' = Append(hist, [op |-> "handle_single_conflict",
                                      name |-> conflict.playlist_name, t |-> now,
                                      fail |-> fail,
                                      reported |-> reports_auto_resolved(conflict, cfg,
                                                                         dry_run)])
        /\ UNCHANGED <<fileA, fileB, op, arg, res, conflict_rules>>
        /\ UNCHANGED <<now, phase, cfg, dry_run, conflict_files, folder_idx, remaining,
                       passes, edits, changed, pre_dev>>
        /\ UNCHANGED threads

NextConflicts ==
    \/ HandleSingleConflict
    \/ Tick

SpecConflicts == InitConflicts /\ [][NextConflicts]_vars

----------------------------------------------------------------------------
(* Repeated-pass harness: full passes one after the other over device folders
   nobody else changes, with one file more than in the other harnesses *)

InitRepass ==
    /\ dev \in [Devices -> [FileNames -> FileChoices]]
    /\ FilesPresent(dev) = MaxFiles + 1
    /\ cfg \in Configs
    /\ dry_run = FALSE
    /\ conv = [n \in FileNames |-> Absent]
    /\ backups = {}
    /\ conflicts_dir = {}
    /\ recently_processed = [n \in {} |-> 0]
    /\ now = 0
    /\ phase = "idle"
    /\ conflict_files = {}
    /\ folder_idx = 1
    /\ remaining = {}
    /\ wlog = <<>>
    /\ passes = 0
    /\ edits = 0
    /\ changed = FALSE
    /\ pre_dev = dev
    /\ fileA = <<>> /\ fileB = <<>> /\ op = "none" /\ arg = None /\ res = None
    /\ conflict_rules = NoRules
    /\ hist = <<>>
    /\ WatchAtRest

NextRepass ==
    \/ StartPass
    \/ ConvertM3u8
    \/ ProcessFile
    \/ NextFolder
    \/ EndPass

SpecRepass == InitRepass /\ [][NextRepass]_vars

----------------------------------------------------------------------------
(* Deduplication harness: remove_duplicates_from_playlist called on playlists
   with and without duplicates, with and without dry-run *)

MaxDedups == 2

\* a track listed twice, two tracks, a comment listed twice, and a duplicate
\* track with a comment in between
DedupContents ==
    { TwiceA,
      << <<"a">>, <<"b">> >>,
      << <<"#", "c">>, <<"#", "c">> >>,
      << <<"a">>, <<"#", "c">>, <<"a">> >> }

InitDedup ==
    /\ dev \in [Devices -> [BackupPlaylists -> {Absent} \cup {FileOf(c) : c \in DedupContents}]]
    /\ \A n \in BackupPlaylists : ~dev["smartphone"][n].exists
    /\ cfg = DefaultConfig
    /\ dry_run \in BOOLEAN
    /\ conv = [n \in FileNames |-> Absent]
    /\ backups = {}
    /\ conflicts_dir = {}
    /\ recently_processed = [n \in {} |-> 0]
    /\ now = 0
    /\ phase = "idle"
    /\ conflict_files = {}
    /\ folder_idx = 1
    /\ remaining = {}
    /\ wlog = <<>>
    /\ passes = 0
    /\ edits = 0
    /\ changed = FALSE
    /\ pre_dev = dev
    /\ fileA = <<>> /\ fileB = <<>> /\ op = "none" /\ arg = None /\ res = None
    /\ conflict_rules = NoRules
    /\ hist = <<>>
    /\ WatchAtRest

\* remove_duplicates_from_playlist on a file of a device, the copy or the
\* rewriting possibly failing
RemoveDuplicatesFromPlaylistIo ==
    \E d \in Devices, name \in BackupPlaylists, fail \in {NoFault} \cup DedupFaults :
        /\ Len(hist) < MaxDedups
        /\ remove_duplicates_from_playlist(d, name, fail)
        /\ UNCHANGED <<fileA, fileB, op, arg, res, conflict_rules>>
        /\ UNCHANGED wvars
        /\ UNCHANGED <<conv, conflicts_dir, recently_processed, now, phase, cfg,
                       dry_run, conflict_files, folder_idx, remaining, wlog, passes,
                       edits, changed, pre_dev>>

NextDedup ==
    \/ RemoveDuplicatesFromPlaylistIo
    \/ Tick

SpecDedup == InitDedup /\ [][NextDedup]_vars

----------------------------------------------------------------------------
(* scheduler.py: parse_interval and start_scheduler.  An interval string is a
   sequence of tokens, none of which holds a part of "never", "15", "30",
   "hour", "daily" or "@02:00" without being it *)

DaySeconds == 24 * 3600
TargetSecond == 2 * 3600     \* 02:00:00 of the day

\* str.lower() on a token
IntervalLower(tok) ==
    CASE tok = "NEVER" -> "never"
      [] tok = "Hour"  -> "hour"
      [] OTHER         -> tok

\* interval_str.strip().lower() (line 27)
RECURSIVE IntervalStrip(_)
IntervalStrip(s) ==
    IF s = <<>> THEN <<>>
    ELSE IF Head(s) = " " THEN IntervalStrip(Tail(s))
    ELSE IF s[Len(s)] = " " THEN IntervalStrip(SubSeq(s, 1, Len(s) - 1))
    ELSE [i \in 1..Len(s) |-> IntervalLower(s[i])]

\* sub in interval_str
IntervalHas(s, sub) == \E i \in 1..Len(s) : s[i] = sub

\* a number of seconds parse_interval returns
Seconds(n) == [is_none |-> FALSE, seconds |-> n]

\* parse_interval(interval_str) at the second t of the day (lines 26-44):
\* the seconds between two passes, or None
parse_interval(interval_str, t) ==
    LET s     == IntervalStrip(interval_str)
        delay == (TargetSecond - t) % DaySeconds
    IN IF s = <<"never">> THEN None
       ELSE IF IntervalHas(s, "15") THEN Seconds(15 * 60)
       ELSE IF IntervalHas(s, "30") THEN Seconds(30 * 60)
       ELSE IF IntervalHas(s, "hour") THEN Seconds(60 * 60)
       ELSE IF IntervalHas(s, "daily") /\ IntervalHas(s, "@02:00")
            THEN IF delay > 0 THEN Seconds(delay) ELSE Seconds(3600 * 24)
       ELSE None

\* the interval strings start_scheduler is called with
IntervalPool ==
    { <<"never">>, <<" ", "NEVER", " ">>, <<"15", "min">>, <<"30", "min">>,
      <<"hour", "ly">>, <<"every", " ", "Hour">>, <<"1", "h">>,
      <<"daily", "@02:00">>, <<"daily">>, <<"45", "min">>, <<>> }

\* the seconds of the day at which the scheduler thread starts
StartSeconds == {0, TargetSecond, 12 * 3600}

SchedulerThread == "scheduler"

\* log (conversion.py lines 38-53) creates the log folder and prints outside
\* of its try block: a call of it returns or raises
LogOutcomes == {"returns", "raises"}

\* initial_sync_with_comparison returns or raises
PassOutcomes == {"returns", "raises"}

InitScheduler ==
    /\ arg \in IntervalPool
    /\ now \in StartSeconds
    /\ res = None
    /\ threads = [th \in {SchedulerThread} |-> [pc |-> "start"]]
    /\ recently_pushed_files = [d \in Devices |-> [n \in {} |-> 0]]
    /\ passes = 0
    /\ dev = [d \in Devices |-> [n \in FileNames |-> Absent]]
    /\ pre_dev = dev
    /\ cfg = DefaultConfig
    /\ dry_run \in BOOLEAN
    /\ conv = [n \in FileNames |-> Absent]
    /\ backups = {}
    /\ conflicts_dir = {}
    /\ recently_processed = [n \in {} |-> 0]
    /\ phase = "idle"
    /\ conflict_files = {}
    /\ folder_idx = 1
    /\ remaining = {}
    /\ wlog = <<>>
    /\ edits = 0
    /\ changed = FALSE
    /\ fileA = <<>> /\ fileB = <<>> /\ op = "none"
    /\ conflict_rules = NoRules
    /\ hist = <<>>

\* what a step of the scheduler thread leaves alone
SchedulerFrame ==
    /\ UNCHANGED <<fileA, fileB, op, arg, conflict_rules, hist>>
    /\ UNCHANGED svars
    /\ UNCHANGED recently_pushed_files

SchedulerAt(pc) == threads[SchedulerThread].pc = pc
SchedulerGoes(pc) == threads' = [threads EXCEPT ![SchedulerThread].pc = pc]

\* line 7: interval_sec = parse_interval(interval)
SchedulerParse ==
    /\ SchedulerAt("start")
    /\ res' = parse_interval(arg, now)
    /\ SchedulerGoes(IF parse_interval(arg, now) = None THEN "invalid" ELSE "valid")
    /\ UNCHANGED <<fileA, fileB, op, arg, conflict_rules, hist>>
    /\ UNCHANGED svars
    /\ UNCHANGED recently_pushed_files

\* lines 8-10: the interval is invalid, the thread logs it and returns
SchedulerInvalid ==
    /\ SchedulerAt("invalid")
    /\ \E logged \in LogOutcomes :
          SchedulerGoes(IF logged = "raises" THEN "died" ELSE "returned")
    /\ res' = res
    /\ SchedulerFrame

\* line 12: the thread logs that the scheduled sync started
SchedulerStarted ==
    /\ SchedulerAt("valid")
    /\ \E logged \in LogOutcomes :
          SchedulerGoes(IF logged = "raises" THEN "died" ELSE "loop")
    /\ res' = res
    /\ SchedulerFrame

\* line 15: the loop invokes initial_sync_with_comparison
SchedulerInvoke ==
    /\ SchedulerAt("loop")
    /\ SchedulerGoes("pass")
    /\ passes' = IF passes < MaxPasses THEN passes + 1 ELSE passes
    /\ res' = res
    /\ UNCHANGED <<fileA, fileB, op, arg, conflict_rules, hist>>
    /\ UNCHANGED <<dev, conv, backups, conflicts_dir, recently_processed, now, phase,
                   cfg, dry_run, conflict_files, folder_idx, remaining, wlog, edits,
                   changed, pre_dev>>
    /\ UNCHANGED recently_pushed_files

\* lines 15-16: the pass returns and the thread logs "Sync complete", or the
\* pass or that log raises into the handler of line 18
SchedulerPassEnds ==
    /\ SchedulerAt("pass")
    /\ \E pass \in PassOutcomes, logged \in LogOutcomes :
          SchedulerGoes(IF pass = "raises" \/ logged = "raises" THEN "handler"
                        ELSE "sleep")
    /\ res' = res
    /\ SchedulerFrame

\* line 17: time.sleep(interval_sec)
SchedulerSleep ==
    /\ SchedulerAt("sleep")
    /\ SchedulerGoes("loop")
    /\ res' = res
    /\ SchedulerFrame

\* line 19: the handler logs the error; a log that raises here ends the thread
SchedulerHandler ==
    /\ SchedulerAt("handler")
    /\ \E logged \in LogOutcomes :
          SchedulerGoes(IF logged = "raises" THEN "died" ELSE "pause")
    /\ res' = res
    /\ SchedulerFrame

\* line 20: time.sleep(30), then the loop goes on
SchedulerPause ==
    /\ SchedulerAt("pause")
    /\ SchedulerGoes("loop")
    /\ res' = res
    /\ SchedulerFrame

NextScheduler ==
    \/ SchedulerParse
    \/ SchedulerInvalid
    \/ SchedulerStarted
    \/ SchedulerInvoke
    \/ SchedulerPassEnds
    \/ SchedulerSleep
    \/ SchedulerHandler
    \/ SchedulerPause

SpecScheduler == InitScheduler /\ [][NextScheduler]_vars

\* the thread is a running thread of the operating system: it takes its next
\* step, and time.sleep returns
SpecSchedulerFair == SpecScheduler /\ WF_vars(NextScheduler)

----------------------------------------------------------------------------
(* Dry-run harness: full passes and watcher events, with and without dry-run,
   over a staging area, a Backups folder and a Conflicts folder that hold
   files already *)

\* a staging area that is empty or holds a copy of Rock.m3u
StagedChoices ==
    { [n \in FileNames |-> Absent],
      [n \in FileNames |-> IF n = Rock THEN FileOf(<< <<"b">> >>) ELSE Absent] }

\* a Backups folder that is empty or holds as many backups of Rock.m3u as are
\* kept
BackupChoices ==
    { {},
      { [fname |-> Rock \o <<"_", "old1", ".m3u">>, mtime |-> 1, lines |-> << <<"a">> >>],
        [fname |-> Rock \o <<"_", "old2", ".m3u">>, mtime |-> 2, lines |-> << <<"b">> >>] } }

InitDry ==
    /\ dev \in [Devices -> [FileNames -> FileChoices]]
    /\ FilesPresent(dev) <= MaxFiles
    /\ FilesPresent(dev) >= 1
    /\ cfg \in Configs
    /\ dry_run \in BOOLEAN
    /\ conv \in StagedChoices
    /\ backups \in BackupChoices
    /\ conflicts_dir = {}
    /\ recently_processed = [n \in {} |-> 0]
    /\ now = 0
    /\ phase = "idle"
    /\ conflict_files = {}
    /\ folder_idx = 1
    /\ remaining = {}
    /\ wlog = <<>>
    /\ passes = 0
    /\ edits = 0
    /\ changed = FALSE
    /\ pre_dev = dev
    /\ fileA = <<>> /\ fileB = <<>> /\ op = "none" /\ arg = None /\ res = None
    /\ conflict_rules = NoRules
    /\ hist = <<>>
    /\ WatchAtRest

MaxDryEvents == 1

\* an event of the watcher between two passes
EventBetweenPasses == phase = "idle" /\ Len(hist) < MaxDryEvents /\ HandleEvent

NextDry ==
    \/ StartPass
    \/ ConvertM3u8
    \/ ProcessFile
    \/ NextFolder
    \/ EndPass
    \/ EventBetweenPasses

SpecDry == InitDry /\ [][NextDry]_vars

----------------------------------------------------------------------------
(* Concurrent backup harness: two threads reconcile the playlist Rock.m3u at
   the same time, create_backup taken statement by statement *)

\* lines 373-384 and 436: the thread builds the content and writes its backup
\* file (a file of the same second is overwritten)
BackupWrite ==
    \E th \in ThreadIds, content \in BackupContents :
        /\ threads[th].pc = "idle"
        /\ Len(hist) + Cardinality(InFlight) < MaxCalls
        /\ backups' = WriteFile(backups, BackupName(Rock, now), content)
        /\ threads' = [threads EXCEPT ![th] = [pc |-> "list", content |-> content]]
        /\ UNCHANGED <<fileA, fileB, op, arg, res, conflict_rules, hist>>
        /\ UNCHANGED <<dev, conv, conflicts_dir, recently_processed, now, phase, cfg,
                       dry_run, conflict_files, folder_idx, remaining, wlog, passes,
                       edits, changed, pre_dev, recently_pushed_files>>

\* lines 388-393: os.listdir of the Backups folder
BackupList ==
    \E th \in ThreadIds :
        /\ threads[th].pc = "list"
        /\ threads' = [threads EXCEPT ![th] =
                          [pc |-> "sort", content |-> threads[th].content,
                           listed |-> {b.fname : b \in BackupsOf(backups, Rock)}]]
        /\ UNCHANGED <<fileA, fileB, op, arg, res, conflict_rules, hist>>
        /\ UNCHANGED <<svars, recently_pushed_files>>

\* the reconciliation of the thread ends: with the staged copy written
\* (lines 445-447), or in the except clause of lines 453-455 without it
EndReconciliation(th, failed) ==
    /\ threads' = [threads EXCEPT ![th] = [pc |-> "idle"]]
    /\ conv' = IF failed THEN conv
               ELSE [conv EXCEPT ![Rock] = FileOf(threads[th].content)]
    /\ hist' = Append(hist, [op |-> "reconcile", thread |-> th, name |-> Rock,
                              t |-> now, failed |-> failed])

\* line 394: sorted() reads the modification time of every listed file;
\* os.path.getmtime raises for a file that is gone. Lines 396: nothing to
\* delete ends create_backup
BackupSort ==
    \E th \in ThreadIds :
        /\ threads[th].pc = "sort"
        /\ LET listed  == threads[th].listed
               present == {b \in backups : b.fname \in listed}
               gone    == \E f \in listed : ~\E b \in backups : b.fname = f
           IN IF gone THEN EndReconciliation(th, TRUE)
              ELSE IF Cardinality(listed) > cfg.max_backups
              THEN /\ threads' = [threads EXCEPT ![th] =
                                     [pc |-> "remove", content |-> threads[th].content,
                                      old |-> {b.fname : b \in OldestIn(present,
                                                                        cfg.max_backups)}]]
                   /\ UNCHANGED <<conv, hist>>
              ELSE EndReconciliation(th, FALSE)
        /\ UNCHANGED <<fileA, fileB, op, arg, res, conflict_rules>>
        /\ UNCHANGED <<dev, backups, conflicts_dir, recently_processed, now, phase, cfg,
                       dry_run, conflict_files, folder_idx, remaining, wlog, passes,
                       edits, changed, pre_dev, recently_pushed_files>>

\* lines 397-402: os.remove of the oldest files; it raises for a file that is
\* gone, after the files before it were deleted
BackupRemove ==
    \E th \in ThreadIds :
        /\ threads[th].pc = "remove"
        /\ LET old  == threads[th].old
               gone == \E f \in old : ~\E b \in backups : b.fname = f
           IN /\ backups' = IF gone THEN backups
                            ELSE {b \in backups : b.fname \notin old}
              /\ EndReconciliation(th, gone)
        /\ UNCHANGED <<fileA, fileB, op, arg, res, conflict_rules>>
        /\ UNCHANGED <<dev, conflicts_dir, recently_processed, now, phase, cfg,
                       dry_run, conflict_files, folder_idx, remaining, wlog, passes,
                       edits, changed, pre_dev, recently_pushed_files>>

\* one further create_backup for the playlist, with no other call running
LaterBackup ==
    \E content \in BackupContents :
        /\ InFlight = {}
        /\ Len(hist) < MaxCalls
        /\ \E i \in 1..Len(hist) : hist[i].op = "reconcile"
        /\ backups' = create_backup(backups, Rock, content, cfg.max_backups, now)
        /\ hist' = Append(hist, [op |-> "create_backup", thread |-> "none", name |-> Rock,
                                  t |-> now, failed |-> FALSE])
        /\ UNCHANGED <<fileA, fileB, op, arg, res, conflict_rules>>
        /\ UNCHANGED wvars
        /\ UNCHANGED <<dev, conv, conflicts_dir, recently_processed, now, phase, cfg,
                       dry_run, conflict_files, folder_idx, remaining, wlog, passes,
                       edits, changed, pre_dev>>

NextBackupThreads ==
    \/ BackupWrite
    \/ BackupList
    \/ BackupSort
    \/ BackupRemove
    \/ LaterBackup
    \/ Tick

SpecBackupThreads == InitBackup /\ [][NextBackupThreads]_vars

----------------------------------------------------------------------------
(* GUI harness: the threads of the conflict manager window, which share its
   SyncConfig object self.cfg (the variable cfg) *)

\* the threads a user can have running at once: two manual resolutions
\* (lines 360-380) and one scan (lines 275-286)
ResolveThreads == {"resolve_1", "resolve_2"}
ScanThread == "scan"
GuiThreads == ResolveThreads \cup {ScanThread}

\* the strategies of the resolution buttons (lines 208-213)
ManualResolutions == {PC_WINS, SMARTPHONE_WINS, MERGE_BOTH, MERGE_NO_DUPLICATES}

\* the conflict the window lists: both devices hold Rock.m3u, with different
\* tracks
ListedConflict == detect_conflict(DeviceFile("pc", Rock), DeviceFile("smartphone", Rock))

\* manual resolutions and scans the user starts
MaxGuiCalls == 2

GuiInFlight == {th \in GuiThreads : threads[th].pc # "idle"}

InitGui ==
    /\ dev \in [Devices -> [FileNames -> FileChoices]]
    /\ \A d \in Devices, n \in FileNames : dev[d][n].exists <=> n = Rock
    /\ ListedConflict # None
    /\ cfg \in Configs
    /\ dry_run = FALSE
    /\ conv = [n \in FileNames |-> Absent]
    /\ backups = {}
    /\ conflicts_dir = {}
    /\ recently_processed = [n \in {} |-> 0]
    /\ now = 0
    /\ phase = "idle"
    /\ conflict_files = {}
    /\ folder_idx = 1
    /\ remaining = {}
    /\ wlog = <<>>
    /\ passes = 0
    /\ edits = 0
    /\ changed = FALSE
    /\ pre_dev = dev
    /\ fileA = <<>> /\ fileB = <<>> /\ op = "none" /\ arg = None /\ res = None
    /\ conflict_rules = NoRules
    /\ hist = <<>>
    /\ recently_pushed_files = [d \in Devices |-> [n \in {} |-> 0]]
    /\ threads = [th \in GuiThreads |-> [pc |-> "idle"]]

\* the variables a GUI thread step leaves alone whatever it does
GuiFrame ==
    /\ UNCHANGED <<fileA, fileB, op, arg, res, conflict_rules>>
    /\ UNCHANGED <<dev, backups, now, phase, dry_run, conflict_files, folder_idx, remaining,
                   passes, edits, changed, pre_dev, recently_pushed_files>>

StoresUnchanged == UNCHANGED <<conv, conflicts_dir, recently_processed, wlog>>

\* line 365: resolve_thread starts and reads the configured strategy
ResolveStart ==
    \E th \in ResolveThreads, resolution \in ManualResolutions :
        /\ threads[th].pc = "idle"
        /\ Len(hist) + Cardinality(GuiInFlight) < MaxGuiCalls
        /\ threads' = [threads EXCEPT ![th] =
                          [pc |-> "set", resolution |-> resolution,
                           original_resolution |-> cfg.conflict_resolution]]
        /\ UNCHANGED <<cfg, hist>>
        /\ StoresUnchanged
        /\ GuiFrame

\* line 366: the chosen strategy is written into the shared SyncConfig
ResolveSet ==
    \E th \in ResolveThreads :
        /\ threads[th].pc = "set"
        /\ cfg' = [cfg EXCEPT !.conflict_resolution = threads[th].resolution]
        /\ threads' = [threads EXCEPT ![th].pc = "call"]
        /\ UNCHANGED hist
        /\ StoresUnchanged
        /\ GuiFrame

\* line 369 up to lines 142-143 of conversion.py: handle_single_conflict is
\* entered and snapshots the two versions
ResolveEnter ==
    \E th \in ResolveThreads :
        /\ threads[th].pc = "call"
        /\ \E st \in {IF cfg.backup_before_resolve
                      THEN backup_conflict_versions(WatchStores, ListedConflict, now)
                      ELSE WatchStores} :
            /\ conflicts_dir' = st.cdir
            /\ wlog' = st.wlog
        /\ threads' = [threads EXCEPT ![th].pc = "handling"]
        /\ UNCHANGED <<cfg, hist, conv, recently_processed>>
        /\ GuiFrame

\* lines 145-160 of conversion.py, with the strategy the SyncConfig holds at
\* that moment; log() may raise (its os.makedirs and print are unguarded), and
\* then line 372 is not reached and the except clause of line 377 ends the thread
ResolveHandle ==
    \E th \in ResolveThreads, raises \in BOOLEAN :
        /\ threads[th].pc = "handling"
        /\ \E st \in {handle_single_conflict(WatchStores, ListedConflict,
                                             [cfg EXCEPT !.backup_before_resolve = FALSE],
                                             dry_run, now)} :
            /\ conv' = st.conv
            /\ wlog' = st.wlog
            /\ recently_processed' = IF raises THEN recently_processed ELSE st.rp
        /\ IF raises
           THEN /\ threads' = [threads EXCEPT ![th] = [pc |-> "idle"]]
                /\ hist' = Append(hist, [op |-> "manual_resolution", thread |-> th,
                                          chosen |-> threads[th].resolution,
                                          used |-> cfg.conflict_resolution,
                                          before |-> threads[th].original_resolution,
                                          after |-> cfg.conflict_resolution,
                                          raised |-> TRUE])
           ELSE /\ threads' = [threads EXCEPT ![th] =
                                  [pc |-> "restore", resolution |-> threads[th].resolution,
                                   original_resolution |-> threads[th].original_resolution,
                                   used |-> cfg.conflict_resolution]]
                /\ UNCHANGED hist
        /\ UNCHANGED <<cfg, conflicts_dir>>
        /\ GuiFrame

\* line 372: the strategy read at line 365 is written back
ResolveRestore ==
    \E th \in ResolveThreads :
        /\ threads[th].pc = "restore"
        /\ cfg' = [cfg EXCEPT !.conflict_resolution = threads[th].original_resolution]
        /\ threads' = [threads EXCEPT ![th] = [pc |-> "idle"]]
        /\ hist' = Append(hist, [op |-> "manual_resolution", thread |-> th,
                                  chosen |-> threads[th].resolution,
                                  used |-> threads[th].used,
                                  before |-> threads[th].original_resolution,
                                  after |-> threads[th].original_resolution,
                                  raised |-> FALSE])
        /\ StoresUnchanged
        /\ GuiFrame

\* line 279: scan_thread calls detect_and_handle_conflicts(self.cfg), which
\* lists and parses the folders first
ScanStart ==
    /\ threads[ScanThread].pc = "idle"
    /\ Len(hist) + Cardinality(GuiInFlight) < MaxGuiCalls
    /\ threads' = [threads EXCEPT ![ScanThread] =
                      [pc |-> "scanning", entered_with |-> cfg.conflict_resolution]]
    /\ UNCHANGED <<cfg, hist>>
    /\ StoresUnchanged
    /\ GuiFrame

\* lines 130-131 of conversion.py: the conflicts found are handled with the
\* SyncConfig as it is then
ScanHandle ==
    /\ threads[ScanThread].pc = "scanning"
    /\ \E st \in {handle_single_conflict(WatchStores, ListedConflict, cfg, dry_run, now)} :
        /\ conv' = st.conv
        /\ conflicts_dir' = st.cdir
        /\ wlog' = st.wlog
        /\ recently_processed' = st.rp
    /\ threads' = [threads EXCEPT ![ScanThread] = [pc |-> "idle"]]
    /\ hist' = Append(hist, [op |-> "detect_and_handle_conflicts", thread |-> ScanThread,
                              entered_with |-> threads[ScanThread].entered_with,
                              used |-> cfg.conflict_resolution])
    /\ UNCHANGED cfg
    /\ GuiFrame

NextGui ==
    \/ ResolveStart
    \/ ResolveSet
    \/ ResolveEnter
    \/ ResolveHandle
    \/ ResolveRestore
    \/ ScanStart
    \/ ScanHandle

SpecGui == InitGui /\ [][NextGui]_vars

----------------------------------------------------------------------------
(* Legacy harness: the handler and the full pass of PlaylistConverter.py, with
   I/O errors at single steps of a reconciliation *)

\* playlists the device folders of the stand-alone engine are drawn from
LegacyContentPool ==
    { << <<"/", "m", "/", "PC", "/", "S", "/", "a">> >>,      \* /m/PC/S/a.mp3
      << <<"/", "m", "/", "Phone", "/", "S", "/", "a">> >>,   \* /m/Phone/S/a.mp3
      << <<"#", "c">> >>,                                     \* a comment only
      << <<"#", "c">>, <<"b">> >> }                           \* a comment, b.mp3

LegacyFileChoices == {Absent} \cup {FileOf(c) : c \in LegacyContentPool}

\* PROCESS_DELAY, BLOCK_DURATION and MAX_BACKUPS of config.json (lines 117-119)
LegacyConfigs ==
    {c \in Configs : c.conflict_resolution = DefaultConfig.conflict_resolution
                     /\ c.auto_resolve_conflicts /\ c.backup_before_resolve
                     /\ c.max_backups = DefaultConfig.max_backups}
      \cup {[DefaultConfig EXCEPT !.block_duration = 1]}

\* the calls of the harness that met an I/O error
FaultsIn(h) == {i \in 1..Len(h) : h[i].fail # NoFault}

InitLegacy ==
    /\ dev \in [Devices -> [FileNames -> LegacyFileChoices]]
    /\ FilesPresent(dev) <= MaxFiles
    /\ \A d \in Devices : ~dev[d][Rock8].exists
    /\ cfg \in LegacyConfigs
    /\ dry_run = FALSE
    /\ conv = [n \in FileNames |-> Absent]
    /\ backups = {}
    /\ conflicts_dir = {}
    /\ recently_processed = [n \in {} |-> 0]
    /\ now = 0
    /\ phase = "idle"
    /\ conflict_files = {}
    /\ folder_idx = 1
    /\ remaining = {}
    /\ wlog = <<>>
    /\ passes = 0
    /\ edits = 0
    /\ changed = FALSE
    /\ pre_dev = dev
    /\ fileA = <<>> /\ fileB = <<>> /\ op = "none" /\ arg = None /\ res = None
    /\ conflict_rules = NoRules
    /\ hist = <<>>
    /\ WatchAtRest

\* on_created / on_modified of the handler of folder d for one of its files;
\* the watcher may report a file any number of times and at any later time
LegacyEvent ==
    \E d \in Devices, filename \in FileNames, fail \in {NoFault} \cup FaultSteps :
        /\ Len(hist) < MaxEvents
        /\ dev[d][filename].exists
        /\ fail # NoFault => FaultsIn(hist) = {}
        /\ \E st \in {legacy_handle_event(WatchStores, d, filename, cfg, now, fail)} :
            /\ recently_processed' = st.rp
            /\ backups' = st.bk
            /\ conv' = st.conv
            /\ wlog' = st.wlog
            /\ dev' = st.dev
            /\ recently_pushed_files' = st.rpf
            /\ hist' = Append(hist, [op |-> "handle_event", device |-> d, name |-> filename,
                                      t |-> now, fail |-> fail])
            /\ UNCHANGED <<fileA, fileB, op, arg, res, conflict_rules>>
            /\ UNCHANGED <<conflicts_dir, now, phase, cfg, dry_run, conflict_files, folder_idx,
                           remaining, passes, edits, changed, pre_dev>>
        /\ UNCHANGED threads

\* initial_sync_with_comparison() of PlaylistConverter.py, run at start-up and
\* by "Run" of the tray menu: both folders are renamed, then the smartphone
\* folder is listed and looped over, then the PC folder
LegacyPass ==
    /\ Len(hist) < MaxEvents
    /\ passes < MaxPasses
    /\ \E renamed \in {legacy_convert_folders(WatchStores)} :
       \E phone_order \in ListingOrders(LoopFiles(renamed.dev["smartphone"])) :
       \E phone \in {LegacySyncFiles(renamed, "smartphone", phone_order, cfg, now)} :
       \E pc_order \in ListingOrders(LoopFiles(phone.dev["pc"])) :
       \E st \in {LegacySyncFiles(phone, "pc", pc_order, cfg, now)} :
        /\ recently_processed' = st.rp
        /\ backups' = st.bk
        /\ conv' = st.conv
        /\ wlog' = st.wlog
        /\ dev' = st.dev
        /\ recently_pushed_files' = st.rpf
    /\ passes' = passes + 1
    /\ hist' = Append(hist, [op |-> "initial_sync", device |-> "both", name |-> <<>>,
                              t |-> now, fail |-> NoFault])
    /\ UNCHANGED <<fileA, fileB, op, arg, res, conflict_rules>>
    /\ UNCHANGED <<conflicts_dir, now, phase, cfg, dry_run, conflict_files, folder_idx,
                   remaining, edits, changed, pre_dev>>
    /\ UNCHANGED threads

NextLegacy ==
    \/ LegacyEvent
    \/ LegacyPass
    \/ Tick

SpecLegacy == InitLegacy /\ [][NextLegacy]_vars

----------------------------------------------------------------------------
(* Missing-folder harness: the full pass with a device root folder absent *)

FoldersWithMissing == [FileNames -> FileChoices] \cup {MissingFolder}

FilesIn(folders) ==
    Cardinality({x \in Devices \X FileNames :
                    x[2] \in DOMAIN folders[x[1]] /\ folders[x[1]][x[2]].exists})

InitMissing ==
    /\ dev \in [Devices -> FoldersWithMissing]
    /\ FilesIn(dev) <= MaxFiles
    /\ cfg \in {c \in Configs : c.conflict_resolution = DefaultConfig.conflict_resolution
                                   /\ c.max_backups = DefaultConfig.max_backups}
    /\ dry_run \in BOOLEAN
    /\ conv = [n \in FileNames |-> Absent]
    /\ backups = {}
    /\ conflicts_dir = {}
    /\ recently_processed = [n \in {} |-> 0]
    /\ now = 0
    /\ phase = "idle"
    /\ conflict_files = {}
    /\ folder_idx = 1
    /\ remaining = {}
    /\ wlog = <<>>
    /\ passes = 0
    /\ edits = 0
    /\ changed = FALSE
    /\ pre_dev = dev
    /\ fileA = <<>> /\ fileB = <<>> /\ op = "none" /\ arg = None /\ res = None
    /\ conflict_rules = NoRules
    /\ hist = <<>>
    /\ WatchAtRest

NextMissing ==
    \/ StartPass
    \/ ConvertM3u8
    \/ ConvertM3u8Raises
    \/ ProcessFile
    \/ NextFolder
    \/ EndPass
    \/ Tick

SpecMissing == InitMissing /\ [][NextMissing]_vars

----------------------------------------------------------------------------
(* Fault harness: the full pass with an I/O error at one step of one file *)

NextFaults ==
    \/ StartPass
    \/ ConvertM3u8
    \/ ProcessFileIO
    \/ NextFolder
    \/ EndPass
    \/ Tick

InitFaults ==
    /\ InitMissing
    /\ \A d \in Devices : ~FolderMissing(dev[d])

SpecFaults == InitFaults /\ [][NextFaults]_vars

----------------------------------------------------------------------------
(* Name harness: strip_version applied to file names *)

NameTokens == {"M", "_v", "2", "5", ".m3u", ".m3u8", "\n"}

InitNames ==
    /\ arg \in SeqsUpTo(NameTokens, MaxNameLen)
    /\ op = "none"
    /\ res = None
    /\ fileA = <<>>
    /\ fileB = <<>>
    /\ conflict_rules = NoRules
    /\ hist = <<>>
    /\ EngineAtRest
    /\ WatchAtRest

StripVersion ==
    /\ op = "none"
    /\ op' = "strip_version"
    /\ res' = strip_version_re(arg)
    /\ UNCHANGED <<fileA, fileB, arg, conflict_rules, hist>>
    /\ UNCHANGED svars
    /\ UNCHANGED wvars

NextNames == StripVersion

SpecNames == InitNames /\ [][NextNames]_vars

----------------------------------------------------------------------------
(* Parse harness: parse_playlist_file applied to files with comment lines *)

CommentLinePool ==
    { <<"#", "c">>,             \* a comment
      <<"#", "c", " ">>,        \* a comment with a blank at its end
      <<" ", "#", "c">>,        \* an indented comment
      <<"a", " ">>,             \* a.mp3 with a blank at its end
      <<"S", "\\", "A">> }       \* Songs\A.MP3

InitParse ==
    /\ fileA \in SeqsUpTo(CommentLinePool, MaxLen)
    /\ fileB = <<>>
    /\ op = "none"
    /\ arg = None
    /\ res = None
    /\ conflict_rules = NoRules
    /\ hist = <<>>
    /\ EngineAtRest
    /\ WatchAtRest

ParsePlaylistFile ==
    /\ op = "none"
    /\ op' = "parse_playlist_file"
    /\ res' = parse_playlist_file(AsFile(fileA, "ok"))
    /\ UNCHANGED <<fileA, fileB, arg, conflict_rules, hist>>
    /\ UNCHANGED svars
    /\ UNCHANGED wvars

NextParse == ParsePlaylistFile

SpecParse == InitParse /\ [][NextParse]_vars

----------------------------------------------------------------------------
(* Rules harness: set_conflict_rule and resolve_conflict without a strategy *)

RuleNames == {Rock, RockV2}

AsFileNamed(name, lines) == [name |-> name, status |-> "ok", lines |-> lines]

\* the conflict detect_conflict reports when the PC-side file is called name
ConflictNamed(name) == detect_conflict(AsFileNamed(name, fileA), AsFileNamed(Rock, fileB))

InitRules ==
    /\ fileA \in SeqsUpTo(LinePool, MaxRuleLen)
    /\ fileB \in SeqsUpTo(LinePool, MaxRuleLen)
    /\ op = "none"
    /\ arg = None
    /\ res = None
    /\ conflict_rules = NoRules
    /\ hist = <<>>
    /\ WatchAtRest
    /\ EngineAtRest

SetConflictRule ==
    \E playlist_name \in RuleNames, resolution \in ConflictResolution :
        /\ op = "none"
        /\ conflict_rules' = set_conflict_rule(conflict_rules, playlist_name, resolution)
        /\ UNCHANGED <<fileA, fileB, op, arg, res, hist>>
        /\ UNCHANGED svars
        /\ UNCHANGED wvars

ResolveByRule ==
    \E playlist_name \in RuleNames :
        /\ op = "none"
        /\ ConflictNamed(playlist_name) # None
        /\ op' = "resolve_conflict"
        /\ arg' = [playlist_name |-> playlist_name]
        /\ res' = resolve_conflict_call(conflict_rules, ConflictNamed(playlist_name), None)
        /\ UNCHANGED <<fileA, fileB, conflict_rules, hist>>
        /\ UNCHANGED svars
        /\ UNCHANGED wvars

ResolveExplicit ==
    \E playlist_name \in RuleNames, resolution \in ConflictResolution :
        /\ op = "none"
        /\ ConflictNamed(playlist_name) # None
        /\ op' = "resolve_conflict_explicit"
        /\ arg' = [playlist_name |-> playlist_name, resolution |-> resolution]
        /\ res' = resolve_conflict_call(conflict_rules, ConflictNamed(playlist_name),
                                        Explicit(resolution))
        /\ UNCHANGED <<fileA, fileB, conflict_rules, hist>>
        /\ UNCHANGED svars
        /\ UNCHANGED wvars

NextRules ==
    \/ SetConflictRule
    \/ ResolveByRule
    \/ ResolveExplicit

SpecRules == InitRules /\ [][NextRules]_vars

SpecResolver == InitResolver /\ [][NextResolver]_vars

Spec == Init /\ [][Next]_vars

----------------------------------------------------------------------------
(* Vocabulary of the claims about the resolver *)

\* spec section 3: an entry is a comment exactly when its raw line starts with '#'
NonComment(e) == ~StartsWithHash(e.path)

NonCommentSeq(E) == SelectSeq(E, NonComment)

NonCommentIdx(E) == {i \in 1..Len(E) : NonComment(E[i])}

NonCommentPaths(E) == {E[i].normalized_path : i \in NonCommentIdx(E)}

\* no two non-comment entries of E carry the same normalized path
NoInternalDuplicate(E) ==
    \A i, j \in NonCommentIdx(E) : i # j => E[i].normalized_path # E[j].normalized_path

\* the subsequence of E at the indices in idx
RECURSIVE PickFrom(_, _, _)
PickFrom(E, idx, i) ==
    IF i > Len(E) THEN <<>>
    ELSE (IF i \in idx THEN <<E[i]>> ELSE <<>>) \o PickFrom(E, idx, i + 1)

\* the members of a set of numbers in ascending order, each lowered by one
RECURSIVE Ascending0(_)
Ascending0(S) ==
    IF S = {} THEN <<>>
    ELSE LET m == CHOOSE x \in S : \A y \in S : x <= y
         IN <<m - 1>> \o Ascending0(S \ {m})

\* the normalized paths of the non-comment lines of a file that reads as `lines`
TrackPathSet(lines) ==
    {normalize_path(lines[i]) :
        i \in {j \in 1..Len(lines) : lines[j] # <<>> /\ ~StartsWithHash(lines[j])}}

\* spec section 4.5: a file that cannot be parsed counts as having no entries
ReadAs(lines, status) == IF status = "ok" THEN lines ELSE <<>>

PathsOf(E) == [i \in 1..Len(E) |-> E[i].path]

----------------------------------------------------------------------------
(* Claims about the resolver and the fingerprint, checked under SpecResolver *)

\* C3 (as claimed): a playlist written by write_resolved_playlist has the same
\* fingerprint as the playlist with the same entries under the three reconcile
\* headers: the generated headers, '# Total entries: n' included, do not count.
C3_FingerprintIgnoresGeneratedHeaders ==
    op = "write_resolved_playlist" =>
        checksum(clean_for_hash(res))
            = checksum(clean_for_hash(ReconcileHeader("PC", arg) \o PathsOf(EntriesA)))

\* C4 (as claimed): merge_playlists(A, B, remove_duplicates=True) holds no two
\* non-comment entries (raw line not starting with '#') of equal normalized path.
C4_MergeHasNoDuplicateTrack ==
    (op = "merge_playlists" /\ arg = TRUE) => NoInternalDuplicate(res)

\* C5 (as claimed): when A and B share no normalized path, the deduplicating merge
\* has as many non-comment entries as A and B together.
C5_MergeKeepsAllWhenDisjoint ==
    (op = "merge_playlists" /\ arg = TRUE
        /\ NonCommentPaths(EntriesA) \cap NonCommentPaths(EntriesB) = {})
    => Len(NonCommentSeq(res)) = Len(NonCommentSeq(EntriesA)) + Len(NonCommentSeq(EntriesB))

\* C5 (amended): when A and B share no normalized path and neither holds the same
\* normalized path twice, the deduplicating merge has as many non-comment entries
\* as A and B together.
C5_MergeKeepsAllWhenDisjointAndDuplicateFree ==
    (op = "merge_playlists" /\ arg = TRUE
        /\ NonCommentPaths(EntriesA) \cap NonCommentPaths(EntriesB) = {}
        /\ NoInternalDuplicate(EntriesA) /\ NoInternalDuplicate(EntriesB))
    => Len(NonCommentSeq(res)) = Len(NonCommentSeq(EntriesA)) + Len(NonCommentSeq(EntriesB))

\* C5 witness: such a merge of two lists that both hold tracks
C5_Witness ==
    /\ op = "merge_playlists" /\ arg = TRUE
    /\ NonCommentPaths(EntriesA) \cap NonCommentPaths(EntriesB) = {}
    /\ NoInternalDuplicate(EntriesA) /\ NoInternalDuplicate(EntriesB)
    /\ Len(NonCommentSeq(EntriesA)) = 2 /\ Len(NonCommentSeq(EntriesB)) = 2

\* the order C6 describes: A's non-comment entries, then B's whose path is not in A
MergeOrderClaimed(A, B) ==
    NonCommentSeq(A)
        \o SelectSeq(NonCommentSeq(B), LAMBDA e : e.normalized_path \notin NonCommentPaths(A))

\* C6 (as claimed): resolving with merge-no-duplicates yields A's non-comment
\* entries in order, then exactly B's entries whose path does not occur in A.
C6_MergeOrder ==
    (op = "resolve_conflict" /\ arg = MERGE_NO_DUPLICATES)
    => NonCommentSeq(res.entries) = MergeOrderClaimed(EntriesA, EntriesB)

\* C6 (amended): the same, when neither side holds one normalized path twice.
C6_MergeOrderDuplicateFree ==
    (op = "resolve_conflict" /\ arg = MERGE_NO_DUPLICATES
        /\ NoInternalDuplicate(EntriesA) /\ NoInternalDuplicate(EntriesB))
    => NonCommentSeq(res.entries) = MergeOrderClaimed(EntriesA, EntriesB)

\* C6 witness: B holds a track A already has and, after it, a new one
C6_Witness ==
    /\ op = "resolve_conflict" /\ arg = MERGE_NO_DUPLICATES
    /\ NoInternalDuplicate(EntriesA) /\ NoInternalDuplicate(EntriesB)
    /\ Len(NonCommentSeq(EntriesA)) = 2 /\ Len(NonCommentSeq(EntriesB)) = 2
    /\ EntriesB[1].normalized_path \in NonCommentPaths(EntriesA)
    /\ EntriesB[2].normalized_path \notin NonCommentPaths(EntriesA)

\* C7: remove_duplicates applied to its own result changes nothing.
C7_RemoveDuplicatesIdempotent ==
    op = "remove_duplicates" => remove_duplicates(res) = res

\* C7 witness: a list of four with a track three times, of which two were removed
C7_Witness ==
    /\ op = "remove_duplicates"
    /\ Len(EntriesA) = 4 /\ Len(res) = 2

\* what C8 describes: every comment, and of each path the first non-comment entry
KeepFirstClaimed(E) ==
    PickFrom(E, {i \in 1..Len(E) :
                    \/ ~NonComment(E[i])
                    \/ \A j \in 1..(i - 1) :
                          ~NonComment(E[j]) \/ E[j].normalized_path # E[i].normalized_path}, 1)

\* C8 (as claimed): remove_duplicates returns the input without the later
\* non-comment entries of an already seen normalized path, comments all kept.
C8_RemoveDuplicatesKeepsFirst ==
    op = "remove_duplicates" => res = KeepFirstClaimed(EntriesA)

\* what C9 describes: each path of two or more non-comment entries, with their indices
FindDuplicatesClaimed(E) ==
    LET at(p) == {i \in NonCommentIdx(E) : E[i].normalized_path = p}
    IN [p \in {q \in NonCommentPaths(E) : Cardinality(at(q)) >= 2} |-> Ascending0(at(p))]

\* C9 (as claimed): find_duplicates maps every normalized path of at least two
\* non-comment entries to the ascending list of their indices, and nothing else.
C9_FindDuplicatesGroups ==
    op = "find_duplicates" => res = FindDuplicatesClaimed(EntriesA)

\* C10: detect_conflict returns a conflict only if the two files' sets of
\* non-comment normalized paths differ, and always when they differ and both
\* files are readable.
C10_ConflictIffPathSetsDiffer ==
    op = "detect_conflict" =>
        LET a == TrackPathSet(ReadAs(fileA, arg[1]))
            b == TrackPathSet(ReadAs(fileB, arg[2]))
        IN /\ res # None => a # b
           /\ (arg = <<"ok", "ok">> /\ a # b) => res # None

\* C10 witness: two readable files that differ as text, hold tracks, and do not conflict
C10_Witness ==
    /\ op = "detect_conflict" /\ arg = <<"ok", "ok">>
    /\ fileA # fileB /\ Len(fileA) = 2 /\ Len(fileB) = 2
    /\ TrackPathSet(fileA) # {}
    /\ res = None

----------------------------------------------------------------------------
(* Claims about the full reconciliation pass *)

\* the pass that just returned was at least the second, and no device file was
\* touched since the pass before it returned
SecondPassReturned == phase = "idle" /\ passes >= 2 /\ ~changed

\* C1: a full reconciliation pass that follows another one, with no external
\* file change in between, writes nothing (no staged copy, backup, conflict
\* snapshot or device file)
C1_SecondPassWritesNothing == SecondPassReturned => wlog = <<>>

\* before the pass, device folder d held playlist file p with at least one
\* track line and the other device folder held no file of that playlist
OnlyOn(d, other, p) ==
    /\ pre_dev[d][p].exists
    /\ EndsWith(p, ".m3u")
    /\ \E i \in 1..Len(pre_dev[d][p].lines) : ~StartsWithHash(pre_dev[d][p].lines[i])
    /\ \A n \in FileNames : pre_dev[other][n].exists => strip_version(n) # strip_version(p)
    /\ \A n \in FileNames \ {p} : ~pre_dev[d][n].exists

\* the staged copy and the file on device d of playlist p exist and have the
\* fingerprint of the source file
Delivered(src, d, p) ==
    LET clean_name == strip_version(p)
    IN /\ conv[clean_name].exists
       /\ dev[d][clean_name].exists
       /\ Fingerprint(conv[clean_name].lines) = Fingerprint(dev[d][clean_name].lines)

\* C2: after a pass (not a dry run) over a playlist that only one device
\* holds, the staged copy and the other device's file exist and are equal in
\* fingerprint
C2_OneSidedPlaylistReachesOtherDevice ==
    (phase = "idle" /\ passes >= 1 /\ ~dry_run /\ ~changed) =>
        \A d \in Devices, p \in FileNames :
            LET other == CHOOSE o \in Devices : o # d
            IN OnlyOn(d, other, p) => Delivered(d, other, p)

----------------------------------------------------------------------------
(* Claims about strategy dispatch and per-playlist rules *)

\* what the claimed dispatch returns for the two parsed sides
DispatchClaimed(A, B, strategy) ==
    CASE strategy = PC_WINS -> Resolved(A)
      [] strategy = SMARTPHONE_WINS -> Resolved(B)
      [] strategy = MERGE_BOTH -> Resolved(merge_playlists(A, B, FALSE))
      [] strategy = MERGE_NO_DUPLICATES -> Resolved(merge_playlists(A, B, TRUE))
      [] strategy = SKIP -> None
      [] strategy = MANUAL -> None

\* C11: resolve_conflict(conflict, strategy) returns the PC side for PC-wins,
\* the smartphone side for smartphone-wins, merge_playlists(A, B, false) for
\* merge-both, merge_playlists(A, B, true) for merge-no-duplicates, and none
\* for skip and manual
C11_StrategyDispatch ==
    op = "resolve_conflict" => res = DispatchClaimed(EntriesA, EntriesB, arg)

\* a winner strategy was applied to two sides that differ, both non-empty
C11_Witness ==
    /\ op = "resolve_conflict"
    /\ arg = SMARTPHONE_WINS
    /\ EntriesA # <<>> /\ EntriesB # <<>>
    /\ res = Resolved(EntriesB)
    /\ res # Resolved(EntriesA)

\* the strategy in force for playlist name: its own rule, else the default
RuleInForce(name) ==
    IF name \in DOMAIN conflict_rules THEN conflict_rules[name] ELSE MERGE_NO_DUPLICATES

\* C12: resolve_conflict called without a strategy for playlist P uses the rule
\* registered for P, and the default where P has no rule, whatever rule is
\* registered for another playlist
C12_RuleOverridesDefault ==
    op = "resolve_conflict" /\ arg # None /\ "playlist_name" \in DOMAIN arg =>
        res = DispatchClaimed(ConflictNamed(arg.playlist_name).pc_version,
                              ConflictNamed(arg.playlist_name).smartphone_version,
                              RuleInForce(arg.playlist_name))

\* P has a rule that is not the default, the other playlist has a different
\* rule, and the resolution of P's conflict followed P's rule
C12_Witness ==
    /\ op = "resolve_conflict"
    /\ arg = [playlist_name |-> Rock]
    /\ DOMAIN conflict_rules = RuleNames
    /\ conflict_rules[Rock] = PC_WINS
    /\ conflict_rules[RockV2] = SMARTPHONE_WINS
    /\ res = Resolved(ConflictNamed(Rock).pc_version)
    /\ res # Resolved(ConflictNamed(Rock).smartphone_version)

----------------------------------------------------------------------------
(* Claims about conflict handling in the full pass *)

\* a step that runs detect_and_handle_conflicts
ConflictPhaseStep == phase = "idle" /\ phase' = "convert"

\* the configuration resolves no conflict
Unresolvable(c) ==
    \/ ~c.auto_resolve_conflicts
    \/ resolve_conflict([playlist_name |-> Rock, pc_version |-> <<>>,
                         smartphone_version |-> <<>>, conflict_type |-> "content_change"],
                        c.conflict_resolution) = None

\* the .m3u files of device d whose canonical name is k
FilesOf(folders, d, k) ==
    {n \in ListDir(folders[d]) : EndsWith(n, ".m3u") /\ strip_version(n) = k}

\* canonical names under which the two folders hold conflicting files, whichever
\* of several versioned files of a name the scan picks
ConflictingNames(folders) ==
    {k \in {strip_version(n) : n \in FileNames} :
        /\ FilesOf(folders, "pc", k) # {}
        /\ FilesOf(folders, "smartphone", k) # {}
        /\ \A p \in FilesOf(folders, "pc", k), q \in FilesOf(folders, "smartphone", k) :
              has_meaningful_changes(
                 [pc_version |-> parse_playlist_file(
                                   [name |-> p, status |-> "ok", lines |-> folders["pc"][p].lines]),
                  smartphone_version |-> parse_playlist_file(
                                   [name |-> q, status |-> "ok",
                                    lines |-> folders["smartphone"][q].lines])])}

----------------------------------------------------------------------------
(* Claims about the backup store, checked under SpecBackup *)

Min(a, b) == IF a <= b THEN a ELSE b

\* every call so far was a create_backup for one and the same playlist
OnlyBackupsOfOne ==
    /\ hist # <<>>
    /\ \A i \in 1..Len(hist) : hist[i].op = "create_backup" /\ hist[i].name = hist[1].name

\* name and content of the backup file the i-th call wrote
BackupWrittenBy(i) ==
    [fname |-> BackupName(hist[i].name, hist[i].t), lines |-> hist[i].lines]

NameAndContent(files) == {[fname |-> f.fname, lines |-> f.lines] : f \in files}

\* C14 (as claimed): after n consecutive create_backup calls for one playlist
\* with max_backups = k, exactly min(n, k) backup files remain, those of the
\* min(n, k) latest calls
C14_BackupRetention ==
    OnlyBackupsOfOne =>
        LET n == Len(hist)
            m == Min(n, cfg.max_backups)
        IN /\ Cardinality(backups) = m
           /\ NameAndContent(backups) = {BackupWrittenBy(i) : i \in (n - m + 1)..n}

\* fname is a backup create_backup wrote for playlist name
IsBackupOf(fname, name) == \E t \in 0..(MaxTime + 1) : fname = BackupName(name, t)

\* fname is a copy remove_duplicates_from_playlist made
IsPreDedup(fname) ==
    \E name \in BackupPlaylists, t \in 0..(MaxTime + 1) : fname = PreDedupName(name, t)

\* the step is a create_backup call
CreateBackupStep ==
    /\ Len(hist') = Len(hist) + 1
    /\ hist'[Len(hist')].op = "create_backup"

\* C15 (as claimed): a create_backup call for playlist X deletes no backup of a
\* different playlist and no pre-deduplication copy
C15_RetentionPerPlaylist ==
    [][CreateBackupStep =>
          \A b \in backups :
             (\/ IsPreDedup(b.fname)
              \/ \E y \in BackupPlaylists \ {hist'[Len(hist')].name} : IsBackupOf(b.fname, y))
             => \E b2 \in backups' : b2.fname = b.fname]_vars

----------------------------------------------------------------------------
(* Claims about the debounce, checked under SpecDebounce and SpecThreads *)

\* recently_processed as the i-th call left it
AfterCall(i) == IF i = Len(hist) THEN recently_processed ELSE hist[i + 1].before

\* the i-th call came less than delay seconds after an accepted event for its file
TooSoon(i) ==
    /\ hist[i].name \in DOMAIN hist[i].before
    /\ hist[i].t - hist[i].before[hist[i].name] < cfg.delay

\* accepted calls for one file name are at least delay seconds apart
AcceptedApart ==
    \A i, j \in 1..Len(hist) :
        (i < j /\ hist[i].name = hist[j].name /\ hist[i].result /\ hist[j].result)
            => hist[j].t - hist[i].t >= cfg.delay

\* C16: should_process returns false and leaves recently_processed unchanged
\* when an event for the file name was accepted less than delay seconds before;
\* otherwise it returns true and records the current time; so accepted events
\* for one file name are at least delay seconds apart (one caller at a time)
C16_Debounce ==
    /\ \A i \in 1..Len(hist) :
          IF TooSoon(i)
          THEN ~hist[i].result /\ AfterCall(i) = hist[i].before
          ELSE /\ hist[i].result
               /\ DOMAIN AfterCall(i) = DOMAIN hist[i].before \cup {hist[i].name}
               /\ AfterCall(i)[hist[i].name] = hist[i].t
               /\ \A n \in DOMAIN hist[i].before \ {hist[i].name} :
                     AfterCall(i)[n] = hist[i].before[n]
    /\ AcceptedApart

\* an event was accepted, a later one for the same file dropped after some time
\* had passed, and a third one accepted once delay seconds were over
C16_Witness ==
    \E i, j, k \in 1..Len(hist) :
        /\ i < j /\ j < k
        /\ hist[i].name = hist[j].name /\ hist[j].name = hist[k].name
        /\ hist[i].result /\ ~hist[j].result /\ hist[k].result
        /\ hist[j].t > hist[i].t
        /\ hist[k].t - hist[i].t = cfg.delay

\* C17 (as claimed): of the should_process calls two threads make for one file
\* name within delay seconds of each other, at most one returns true
C17_DebounceUnderConcurrency ==
    \A i, j \in 1..Len(hist) :
        (i < j /\ hist[i].name = hist[j].name /\ hist[i].result /\ hist[j].result)
            => hist[j].t - hist[i].t >= cfg.delay \/ hist[i].t - hist[j].t >= cfg.delay

----------------------------------------------------------------------------
(* Claims about the watch handler, checked under SpecWatch *)

\* the step handles a watch event
WatchEventStep ==
    /\ Len(hist') = Len(hist) + 1
    /\ hist'[Len(hist')].op = "handle_event"

\* the engine pushed file f to device d and the block it recorded is not over
Blocked(d, f) ==
    /\ f \in DOMAIN recently_pushed_files[d]
    /\ now < recently_pushed_files[d][f]

\* C18 (as claimed): a watch event for a file on a device that arrives before
\* the end of the block recorded by the push of that file to that device
\* causes no staging write, no backup, no push and no conflict handling
C18_EchoSuppression ==
    [][WatchEventStep /\ Blocked(hist'[Len(hist')].device, hist'[Len(hist')].name) =>
          /\ conv' = conv
          /\ backups' = backups
          /\ dev' = dev
          /\ conflicts_dir' = conflicts_dir
          /\ recently_pushed_files' = recently_pushed_files]_vars

----------------------------------------------------------------------------
(* Claims about the order of a full pass, checked under Spec *)

\* the files the step of the per-file loop hands to process_to_conversion
HandedToOneDirectional ==
    IF phase = "loop" /\ phase' = "loop" /\ remaining' # remaining
    THEN {file \in remaining \ remaining' :
             /\ file \notin conflict_files
             /\ ~NoChange(FolderKeys[folder_idx], file, conv)}
    ELSE {}

\* positions of the writes to a store in the record of the pass
WritesTo(store) == {i \in 1..Len(wlog) : wlog[i].store = store}

\* the conflict phase of the running pass is over: every playlist the two
\* folders held in conflict at the start of the pass is among the conflicts
\* found, and, where the configuration resolves conflicts, the resolved copy of
\* each of them was staged before the first backup of the per-file loop
ConflictPhaseCompleted ==
    /\ \A k \in ConflictingNames(pre_dev) :
          \E n \in conflict_files : strip_version(n) = k
    /\ (~Unresolvable(cfg) /\ ~dry_run) =>
          \A n \in conflict_files :
             \E i \in WritesTo("conversion") :
                /\ wlog[i].name = n
                /\ \A j \in WritesTo("backups") : i < j
    /\ \A i \in WritesTo("conflicts"), j \in WritesTo("backups") : i < j

ReachesHashComparison ==
    IF phase = "loop" /\ phase' = "loop" /\ remaining' # remaining
    THEN {file \in remaining \ remaining' : file \notin conflict_files}
    ELSE {}

\* the canonical names that yielded a conflict in the detection of the pass
ConflictCanonicalNames == {strip_version(n) : n \in conflict_files}

\* C20 (as claimed): no file of either device whose canonical name yielded a
\* conflict in the conflict detection of a pass reaches the comparison of
\* fingerprints or process_to_conversion in the same pass, also when the file
\* of the PC carries a version suffix
C20_ConflictExclusion ==
    [][\A file \in ReachesHashComparison :
          strip_version(file) \notin ConflictCanonicalNames]_vars

----------------------------------------------------------------------------
(* Claims about the stand-alone engine, checked under SpecLegacy *)

\* the step handles a watch event of device d without an I/O error
LegacyEventStep(d) ==
    /\ Len(hist') = Len(hist) + 1
    /\ hist'[Len(hist')].op = "handle_event"
    /\ hist'[Len(hist')].device = d
    /\ hist'[Len(hist')].fail = NoFault

\* the canonical names whose staged copy the step wrote
StagedBy == {n \in FileNames : \E i \in 1..Len(wlog') : wlog'[i] = Wrote("conversion", n)}

\* the staged lines name no destination device: no track line with the marker
\* /PC/ or a leading "..", or no track line at all
NoDestinationCue(lines) ==
    \A i \in 1..Len(TrackLines(lines)) :
        /\ ~ContainsPC(TrackLines(lines)[i])
        /\ Head(TrackLines(lines)[i]) # ".."

\* C21 (as claimed): when the staged content names no destination device, the
\* push writes it to the device that did not originate the change and leaves
\* the folder of the origin device alone
C21_PushFallbackToNonOrigin ==
    [][\A d \in Devices, n \in FileNames :
          (LegacyEventStep(d) /\ n \in StagedBy /\ NoDestinationCue(conv'[n].lines)) =>
              /\ dev'[OtherDevice(d)][n] = conv'[n]
              /\ dev'[d] = dev[d]]_vars

----------------------------------------------------------------------------
(* Claims about a missing device folder, checked under SpecMissing *)

\* exactly one of the two device root folders is absent
OneRootMissing == Cardinality({d \in Devices : FolderMissing(dev[d])}) = 1

\* the first pass has returned and every playlist of the per-file loop of
\* device d has a staged copy
ProcessedSideOf(d) ==
    \A n \in LoopFiles(dev[d]) : conv[strip_version(n)].exists

\* C22 (as claimed): with exactly one device root folder absent the pass does
\* not raise, and when it has returned the playlists of the other device were
\* processed
C22_MissingFolderSkipped ==
    OneRootMissing =>
        /\ phase # "raised"
        /\ (phase = "idle" /\ passes = 1 /\ ~dry_run) =>
              \A d \in Devices : ~FolderMissing(dev[d]) => ProcessedSideOf(d)

----------------------------------------------------------------------------
(* Claims about I/O errors in the full pass, checked under SpecFaults *)

\* the step of the per-file loop met an I/O error for its file
FaultStep ==
    /\ Len(hist') = Len(hist) + 1
    /\ hist'[Len(hist')].op = "process_file"
    /\ hist'[Len(hist')].fail # NoFault

\* C23 (as claimed): an I/O error while reading, backing up or writing one
\* playlist does not end the pass, the loop goes on with the remaining files,
\* and the staged copies and the device folders are as they were before the
\* file was tried
C23_PerFileErrorIsolation ==
    [][FaultStep =>
          /\ phase' = "loop"
          /\ remaining' = remaining \ {hist'[Len(hist')].name}
          /\ conv' = conv
          /\ dev' = dev]_vars

----------------------------------------------------------------------------
(* Claims about file names, checked under SpecNames *)

\* the last token of the stem is a digit and "_v" stands right before the run
\* of digits it ends
EndsWithVersionSuffix(stem) ==
    \E i \in 1..(Len(stem) - 1) :
        /\ stem[i] = "_v"
        /\ \A k \in (i + 1)..Len(stem) : stem[k] \in DigitTokens

\* the stem without its last '_v<digits>'
WithoutLastSuffix(stem) ==
    LET i == CHOOSE j \in 1..(Len(stem) - 1) :
                 stem[j] = "_v" /\ \A k \in (j + 1)..Len(stem) : stem[k] \in DigitTokens
    IN SubSeq(stem, 1, i - 1)

\* the stem after every trailing '_v<digits>' was taken off, one at a time
RECURSIVE WithoutTrailingSuffixes(_)
WithoutTrailingSuffixes(stem) ==
    IF EndsWithVersionSuffix(stem)
    THEN WithoutTrailingSuffixes(WithoutLastSuffix(stem))
    ELSE stem

CanonicalName(name) ==
    IF EndsWith(name, ".m3u")
    THEN WithoutTrailingSuffixes(SubSeq(name, 1, Len(name) - 1)) \o <<".m3u">>
    ELSE name

----------------------------------------------------------------------------
(* Claims about parsed entries, checked under SpecParse *)

\* C25 (as claimed): the normalized path of the entry of a comment line, a
\* line that starts with '#', is the line itself, blanks at its end included
C25_CommentEntryVerbatim ==
    op = "parse_playlist_file" =>
        \A i \in 1..Len(res) :
            StartsWithHash(res[i].path) => res[i].normalized_path = res[i].path

----------------------------------------------------------------------------
(* Claims about the steps of a reconciliation, checked under Spec *)

\* the step of the per-file loop wrote a staged copy
StagingStep == phase = "loop" /\ conv' # conv

\* the writes the step added to the record of the pass
WritesOfStep == SubSeq(wlog', Len(wlog) + 1, Len(wlog'))

\* C26 (as claimed): a reconciliation writes the backup, then the staged copy,
\* then pushes to a device folder; every staging write of the one-directional
\* flow is followed by a push in the same call
C26_BackupStagePush ==
    [][StagingStep =>
          \E b, g, p \in 1..Len(WritesOfStep) :
              /\ b < g /\ g < p
              /\ WritesOfStep[b].store = "backups"
              /\ WritesOfStep[g].store = "conversion"
              /\ WritesOfStep[p].store \in Devices]_vars

----------------------------------------------------------------------------
(* Claims about feedback between the two folders, checked under SpecLegacy *)

\* the run started from one external edit: one playlist in one device folder,
\* and no call met an I/O error
OneExternalEdit == FilesPresent(pre_dev) = 1 /\ FaultsIn(hist') = {}

\* file f of device d is the engine's own write: the push recorded it and the
\* file still is the staged copy
OwnWrite(d, f) ==
    /\ f \in DOMAIN recently_pushed_files[d]
    /\ dev[d][f].exists
    /\ dev[d][f] = conv[f]

\* C27 (as claimed): after one external edit, whenever the watcher reports a
\* file the engine itself wrote, also after the end of the block, the event
\* leads to no staging write, no backup and no push
C27_NoFeedbackLoop ==
    [][\A d \in Devices :
          (/\ OneExternalEdit
           /\ LegacyEventStep(d)
           /\ OwnWrite(d, hist'[Len(hist')].name)) =>
              /\ conv' = conv
              /\ backups' = backups
              /\ dev' = dev]_vars

\* the step is a full pass of the stand-alone engine
LegacyPassStep ==
    /\ Len(hist') = Len(hist) + 1
    /\ hist'[Len(hist')].op = "initial_sync"

\* the last call was a watch event for the playlist n (not a versioned file, and
\* with a track line) whose reconciliation an I/O error ended at the staging
\* write, at the backup or at the push
AbandonedLast(n) ==
    /\ Len(hist) > 0
    /\ hist[Len(hist)].op = "handle_event"
    /\ hist[Len(hist)].name = n
    /\ strip_version(n) = n
    /\ TrackLines(dev[hist[Len(hist)].device][n].lines) # <<>>
    /\ \/ hist[Len(hist)].fail = "stage" /\ ~conv[n].exists
       \/ hist[Len(hist)].fail = "backup" /\ wlog = <<Wrote("conversion", n)>>
       \/ hist[Len(hist)].fail = "push"
             /\ wlog = <<Wrote("conversion", n), Wrote("backups", n)>>

\* C28 (as claimed): when an I/O error has ended the reconciliation of a file,
\* the next full pass, run with the error gone and nothing else changed,
\* reconciles the file, and afterwards a device folder holds the staged content
C28_RetryAfterTransientError ==
    [][\A n \in FileNames :
          (LegacyPassStep /\ AbandonedLast(n)) =>
              /\ conv'[n].exists
              /\ \E d \in Devices : dev'[d][n] = conv'[n]]_vars

----------------------------------------------------------------------------
(* Claims about watch-triggered reconciliation, checked under SpecWatch *)

\* the event of file name of folder d passes the debounce check of the handler
PassesDebounce(name) ==
    should_process(recently_processed, name, cfg.delay, now).result

\* the file has no counterpart on the other device that conflicts with it
InvolvesNoConflict(d, name) ==
    \/ ~dev[OtherDevice(d)][name].exists
    \/ detect_conflict(DeviceFile(d, name), DeviceFile(OtherDevice(d), name)) = None

\* the file has no staged copy, or one with a different fingerprint
DiffersFromStagedCopy(d, name) ==
    \/ ~conv[strip_version(name)].exists
    \/ Fingerprint(dev[d][name].lines) # Fingerprint(conv[strip_version(name)].lines)

\* C29 (as claimed): the handling of a create/modify event for a playlist of
\* either device that is dropped neither by the debounce nor by the echo
\* suppression, involves no conflict and whose fingerprint differs from the
\* staged copy (or that has no staged copy) rewrites the staged copy of its
\* canonical name from that file
C29_WatchTriggeredReconciliation ==
    [][\A d \in Devices, name \in FileNames :
          ( /\ WatchEventStep
            /\ hist'[Len(hist')].device = d
            /\ hist'[Len(hist')].name = name
            /\ PassesDebounce(name)
            /\ ~Blocked(d, name)
            /\ InvolvesNoConflict(d, name)
            /\ DiffersFromStagedCopy(d, name) )
          => /\ strip_version(name) \in StagedBy
             /\ conv'[strip_version(name)]
                  = FileOf(Converted(dev[d][name].lines, LabelOf(d), now))]_vars

----------------------------------------------------------------------------
(* Claims about renamed playlists in a full pass, checked under Spec *)

\* the files the step of the per-file loop takes from the listing (line 314)
EntersLoop ==
    IF phase = "loop" /\ phase' = "loop" /\ remaining' # remaining
    THEN remaining \ remaining'
    ELSE {}

\* the canonical names detect_and_handle_conflicts compared in the running
\* pass: those with a .m3u file in both folders when it scanned them
ExaminedNames ==
    {k \in FileNames :
        \A d \in Devices :
           \E n \in ListDir(pre_dev[d]) : EndsWith(n, ".m3u") /\ strip_version(n) = k}

\* C30 (as claimed): every playlist the per-file loop of a pass takes up while
\* a file of that name exists in both device folders, files the pass renamed
\* from .m3u8 to .m3u included, was compared by the conflict detection of the
\* same pass
C30_ConflictDetectionCoversRenamed ==
    [][\A file \in EntersLoop :
          (\A d \in Devices : dev[d][file].exists)
              => strip_version(file) \in ExaminedNames]_vars


----------------------------------------------------------------------------
(* Claims about the names of staged copies, checked under Spec *)

\* C31 (as claimed): every file written into the staging area, by the per-file
\* loop or by conflict resolution, carries a canonical name, so every staged
\* copy n has strip_version(n) = n
C31_StagingNamesCanonical ==
    /\ \A i \in WritesTo("conversion") : strip_version(wlog[i].name) = wlog[i].name
    /\ \A n \in FileNames : conv[n].exists => strip_version(n) = n


----------------------------------------------------------------------------
(* Claims about handle_single_conflict, checked under SpecConflicts *)

\* the step is a call of handle_single_conflict
ConflictStep ==
    /\ Len(hist') = Len(hist) + 1
    /\ hist'[Len(hist')].op = "handle_single_conflict"

\* C32 (as claimed): when the write of the resolved playlist to the staging
\* area fails, handle_single_conflict neither records the playlist in
\* recently_processed nor reports the conflict as auto-resolved
C32_FailedResolvedWrite ==
    [][(ConflictStep /\ hist'[Len(hist')].fail = "write") =>
          /\ recently_processed' = recently_processed
          /\ ~hist'[Len(hist')].reported]_vars


----------------------------------------------------------------------------
(* Claims about the SyncConfig shared by GUI threads, checked under SpecGui *)

\* the thread is inside handle_single_conflict or detect_and_handle_conflicts
Executing(th) == threads[th].pc \in {"handling", "scanning"}

\* the step ends a manual resolution
ManualResolutionEnds ==
    /\ Len(hist') = Len(hist) + 1
    /\ hist'[Len(hist')].op = "manual_resolution"

\* C33 (as claimed): while a conflict-handling call or a scan is executing on
\* a thread, no field of the SyncConfig it uses changes, and the configured
\* strategy is the same before and after every manual resolution, also when
\* the resolution raises
C33_SyncConfigImmutable ==
    [][/\ \A th \in GuiThreads :
             (Executing(th) /\ threads'[th] = threads[th]) => cfg' = cfg
       /\ ManualResolutionEnds =>
             hist'[Len(hist')].before = hist'[Len(hist')].after]_vars


----------------------------------------------------------------------------
(* Claims about concurrent create_backup calls, checked under SpecBackupThreads *)

\* the step completes a create_backup that ran alone, after concurrent ones
LaterBackupStep ==
    /\ Len(hist') = Len(hist) + 1
    /\ hist'[Len(hist')].op = "create_backup"

\* C34 (as claimed): after concurrent reconciliations of one playlist have
\* finished and one further create_backup for it completes, the playlist has at
\* most max_backups backups, and no concurrent reconciliation fails because
\* the other call already deleted a backup
C34_RetentionUnderConcurrency ==
    [][/\ LaterBackupStep =>
             Cardinality(BackupsOf(backups', Rock)) <= cfg.max_backups
       /\ \A i \in 1..Len(hist') : hist'[i].op = "reconcile" => ~hist'[i].failed]_vars


----------------------------------------------------------------------------
(* Claims about the two comment tests, checked under SpecParse *)

\* the comment test of merge_playlists and has_meaningful_changes
CommentByRawPath(e) == StartsWithHash(e.path)

\* the comment test of remove_duplicates and find_duplicates
CommentByNormalizedPath(e) == StartsWithHash(e.normalized_path)

\* C35 (as claimed): for every entry parse_playlist_file produces, the test
\* "raw path starts with '#'" and the test "normalized path starts with '#'"
\* give the same answer
C35_CommentClassificationConsistent ==
    op = "parse_playlist_file" =>
        \A i \in 1..Len(res) :
            CommentByRawPath(res[i]) <=> CommentByNormalizedPath(res[i])


----------------------------------------------------------------------------
(* Claims about the conflicts of the watch path, checked under SpecWatch *)

\* the step handles an event of file name in the folder of device d and
\* that file is in conflict with the file of the other device
ConflictEventStep(d, name) ==
    /\ WatchEventStep
    /\ hist'[Len(hist')].device = d
    /\ hist'[Len(hist')].name = name
    /\ event_conflict(d, name) # None

\* C36 (as claimed): in a conflict built by handle_event, pc_version is the
\* content of the file of the PC and smartphone_version the content of the
\* file of the smartphone, whichever device raised the event
C36_ConflictSidesDeviceTrue ==
    [][\A d \in Devices, name \in FileNames :
          ConflictEventStep(d, name) =>
              /\ event_conflict(d, name).pc_version
                   = parse_playlist_file(DeviceFile("pc", name))
              /\ event_conflict(d, name).smartphone_version
                   = parse_playlist_file(DeviceFile("smartphone", name))]_vars


----------------------------------------------------------------------------
(* Claims about conflict handling and the device folders, checked under
   SpecRepass *)

\* the canonical names of the conflicts a pass found
CanonicalConflicts(found) == {strip_version(n) : n \in found}

\* the pass that ended before this step resolved its conflicts automatically
\* and nothing was changed from outside since it began
AutoResolvedBefore ==
    /\ passes >= 1
    /\ ~changed
    /\ ~Unresolvable(cfg)
    /\ ~dry_run

\* C37 (as claimed): the conflict handling of a pass writes to the staging area
\* and the snapshot store only, the playlist files of both devices stay as
\* they are, and a conflict that was auto-resolved is found again by the next
\* full pass when nothing changes from outside
C37_ConflictHandlingLeavesDevices ==
    [][ConflictPhaseStep =>
          /\ dev' = dev
          /\ backups' = backups
          /\ AutoResolvedBefore =>
                CanonicalConflicts(conflict_files) \subseteq CanonicalConflicts(conflict_files')]_vars


----------------------------------------------------------------------------
(* Claims about remove_duplicates_from_playlist, checked under SpecDedup *)

\* this step is a call of remove_duplicates_from_playlist
DedupStep ==
    /\ Len(hist') = Len(hist) + 1
    /\ hist'[Len(hist')].op = "remove_duplicates_from_playlist"

\* the entries remove_duplicates drops from a playlist of these lines
EntriesDropped(lines) ==
    LET entries == parse_playlist_file([name |-> Rock, status |-> "ok", lines |-> lines])
    IN Len(entries) - Len(remove_duplicates(entries))

\* Backups holds the copy of this call, with the lines the playlist had
HoldsOriginal(bk, call) ==
    \E b \in bk : b.fname = PreDedupName(call.name, call.t) /\ b.lines = call.lines

\* C39: remove_duplicates_from_playlist changes the playlist file only when
\* a duplicate entry was dropped and it is no dry-run, and then Backups holds a
\* copy with the file's lines as they were; with no duplicate or in dry-run
\* the file and Backups stay as they are
C39_DedupGuardedByBackup ==
    [][DedupStep =>
          LET call == hist'[Len(hist')]
          IN /\ dev' # dev =>
                   /\ EntriesDropped(call.lines) > 0
                   /\ ~dry_run
                   /\ HoldsOriginal(backups', call)
             /\ (EntriesDropped(call.lines) = 0 \/ dry_run) =>
                   dev' = dev /\ backups' = backups]_vars

\* a playlist with a duplicate was rewritten without it and its copy is kept
C39_Witness ==
    \E i \in 1..Len(hist) :
        /\ hist[i].op = "remove_duplicates_from_playlist"
        /\ hist[i].fail = NoFault
        /\ EntriesDropped(hist[i].lines) > 0
        /\ HoldsOriginal(backups, hist[i])
        /\ dev[hist[i].device][hist[i].name].lines = Deduplicated(hist[i].lines, hist[i].t)


----------------------------------------------------------------------------
(* Claims about the scheduler, checked under SpecSchedulerFair *)

\* the interval the scheduler was started with is one parse_interval accepts
ValidInterval == parse_interval(arg, now) # None

\* the scheduler thread has ended
SchedulerEnded == SchedulerAt("returned") \/ SchedulerAt("died")

\* the scheduler thread is invoking a full pass
InvokesPass == SchedulerAt("pass")

\* C40: started with a valid interval the scheduler loop never ends and
\* invokes a full pass again and again, also after passes that raise; started
\* with an invalid interval or "never" it invokes no pass
C40_SchedulerResilience ==
    /\ ValidInterval => ([]~SchedulerEnded /\ []<>InvokesPass)
    /\ ~ValidInterval => [](passes = 0)


----------------------------------------------------------------------------
(* Claims about dry-run, checked under SpecDry *)

\* the files of the device folders, the staging area, Backups and Conflicts
\* are after the step what they were before it
FilesUntouched ==
    /\ dev' = dev
    /\ conv' = conv
    /\ backups' = backups
    /\ conflicts_dir' = conflicts_dir

\* C38: with dry_run set, no step of a full pass, of the handling of a
\* conflict or of a push creates, overwrites, renames or deletes a file of a
\* device folder, of the staging area, of Backups or of Conflicts
C38_DryRunWriteFree == [][dry_run => FilesUntouched]_vars

\* a dry-run pass ended with a device playlist that differs from the staging
\* area, and a dry-run event was handled, over stores that hold files
C38_Witness ==
    /\ dry_run
    /\ passes >= 1 /\ phase = "idle"
    /\ Len(hist) >= 1
    /\ backups # {}
    /\ \E d \in Devices, n \in FileNames :
          /\ dev[d][n].exists
          /\ EndsWith(n, ".m3u8")
    /\ \E d \in Devices : dev[d][Rock].exists /\ ~conv[Rock].exists

=============================================================================
